---- MODULE Spec2Model ----
(***************************************************************************)
(* Model of the entry reconciliation engine of pr-auto-changelog (v2       *)
(* engine, src/unnamed/part_001 lines 388-1221).                           *)
(*                                                                         *)
(* Text is modelled as a sequence of tokens.  A token is an atomic piece   *)
(* of text that no pattern of the code can match from its inside: a        *)
(* newline, a space, a carriage return, a word, the dash of a list item,   *)
(* a heading text, a PR link "([#p](url))", a tracking marker              *)
(* "<!-- ac:hash:p -->".  String operations of the code (indexOf, slice,   *)
(* split, join, trim, replace, includes, startsWith) are modelled by what  *)
(* they do on such sequences.  Positions are 1-based; JavaScript's -1      *)
(* ("not found") is 0.                                                     *)
(***************************************************************************)
EXTENDS Naturals, Sequences, FiniteSets

VARIABLES
    fileExists,   \* fs.existsSync(changelogPath)
    fileContent,  \* the text of the changelog file (<<>> when it is missing)
    last,         \* what the last executed handler did (history variable)
    hist,         \* summary of the run history (history variable)
    probe         \* input and result of a pure function under test

vars == <<fileExists, fileContent, last, hist, probe>>

----------------------------------------------------------------------------
(* Tokens *)

Tok(k, p, s, h) == [k |-> k, p |-> p, s |-> s, h |-> h]

NL == Tok("nl", 0, "", <<>>)            \* "\n"
SP == Tok("sp", 0, "", <<>>)            \* " "
CR == Tok("cr", 0, "", <<>>)            \* "\r"
DASH == Tok("dash", 0, "", <<>>)        \* "-"  (ENTRY_PREFIX is DASH, SP)
W(s) == Tok("w", 0, s, <<>>)            \* a word: text without whitespace or pattern
H1 == Tok("h1", 0, "", <<>>)            \* "# Changelog"
UNREL == Tok("unrel", 0, "", <<>>)      \* "## [Unreleased]"
REL(v) == Tok("rel", 0, v, <<>>)        \* "## [v] - date"
H3(s) == Tok("h3", 0, s, <<>>)          \* "### s"
BOLD == Tok("bold", 0, "", <<>>)        \* "**"
COLON == Tok("colon", 0, "", <<>>)      \* ":"
LP == Tok("lp", 0, "", <<>>)            \* "("
RP == Tok("rp", 0, "", <<>>)            \* ")"
BANG == Tok("bang", 0, "", <<>>)        \* "!"
LNK(p) == Tok("lnk", p, "", <<>>)       \* "([#p](url))"
MK(h, p) == Tok("mk", p, "", h)         \* "<!-- ac:h:p -->"  HASH_MARKER.template
Null == <<Tok("null", 0, "", <<>>)>>    \* JavaScript null where a text is expected

Min(S) == CHOOSE x \in S : \A y \in S : x <= y
Max(S) == CHOOSE x \in S : \A y \in S : x >= y

\* String.prototype.trim strips these from both ends
IsWs(t) == t.k \in {"sp", "cr", "nl"}

Trim(s) ==
    LET keep == {i \in 1..Len(s) : ~IsWs(s[i])}
    IN  IF keep = {} THEN <<>> ELSE SubSeq(s, Min(keep), Max(keep))

\* s.replace(/\r/g, '')
RemoveCR(s) == SelectSeq(s, LAMBDA t : t.k # "cr")

\* position of the first token of kind k at or after from, 0 when there is none
IndexOfKind(s, k, from) ==
    LET hit == {i \in from..Len(s) : s[i].k = k}
    IN  IF hit = {} THEN 0 ELSE Min(hit)

\* s.match(HASH_MARKER.PATTERN): the first marker of s (the pattern is not global)
FirstMarker(s) == IndexOfKind(s, "mk", 1)

\* s.replace(HASH_MARKER.PATTERN, ''): drops the first marker only
StripMarker(s) ==
    LET i == FirstMarker(s)
    IN  IF i = 0 THEN s ELSE SubSeq(s, 1, i - 1) \o SubSeq(s, i + 1, Len(s))

RECURSIVE Split(_)
\* s.split('\n')
Split(s) ==
    LET i == IndexOfKind(s, "nl", 1)
    IN  IF i = 0 THEN <<s>>
        ELSE <<SubSeq(s, 1, i - 1)>> \o Split(SubSeq(s, i + 1, Len(s)))

RECURSIVE Join(_)
\* lines.join('\n')
Join(lines) ==
    IF Len(lines) = 0 THEN <<>>
    ELSE IF Len(lines) = 1 THEN lines[1]
    ELSE lines[1] \o <<NL>> \o Join(Tail(lines))

\* trimmed.startsWith(CHANGELOG_STRUCTURE.ENTRY_PREFIX)
StartsWithEntryPrefix(t) == Len(t) >= 2 /\ t[1] = DASH /\ t[2] = SP

\* trimmed.replace(/^- /, '')
DropEntryPrefix(t) == IF StartsWithEntryPrefix(t) THEN SubSeq(t, 3, Len(t)) ELSE t

\* text.includes(`[#${prNumber}]`)
HasPrLink(t, prNumber) == \E i \in 1..Len(t) : t[i].k = "lnk" /\ t[i].p = prNumber

\* markerMatch && markerMatch[2] === String(prNumber)
HasMarkerForPr(t, prNumber) ==
    FirstMarker(t) # 0 /\ t[FirstMarker(t)].p = prNumber

\* content.indexOf(CHANGELOG_STRUCTURE.UNRELEASED_SECTION)
IndexOfUnreleased(s) == IndexOfKind(s, "unrel", 1)

\* content.indexOf('\n## ', from)
IndexOfNextSection(s, from) ==
    LET hit == {i \in from..(Len(s) - 1) :
                    s[i] = NL /\ s[i + 1].k \in {"unrel", "rel"}}
    IN  IF hit = {} THEN 0 ELSE Min(hit)

\* content.indexOf(`### ${sectionName}`)
IndexOfSubsection(s, sectionName) ==
    LET hit == {i \in 1..Len(s) : s[i] = H3(sectionName)}
    IN  IF hit = {} THEN 0 ELSE Min(hit)

\* content.indexOf('\n### ', from)
IndexOfNextSubsection(s, from) ==
    LET hit == {i \in from..(Len(s) - 1) : s[i] = NL /\ s[i + 1].k = "h3"}
    IN  IF hit = {} THEN 0 ELSE Min(hit)

----------------------------------------------------------------------------
(* Entry hasher and marker codec *)

\* The digest itself: md5(...).digest('hex').slice(0, 8), modelled as an
\* injective function of the text it is given (no accidental collisions).
Digest(text) == text

\* computeEntryHash that keeps carriage returns
computeEntryHash_keepsCR(entryText) ==
    Digest(Trim(StripMarker(entryText)))

\* computeEntryHash that does not trim
computeEntryHash_noTrim(entryText) ==
    Digest(RemoveCR(StripMarker(entryText)))

computeEntryHash(entryText) ==
    Digest(Trim(RemoveCR(StripMarker(entryText))))

buildMarkedEntry(entryText, prNumber) ==
    LET stripped == Trim(RemoveCR(StripMarker(entryText)))
        hash == computeEntryHash(stripped)
    IN  stripped \o <<SP, MK(hash, prNumber)>>

----------------------------------------------------------------------------
(* Entry state detector *)

NONE == "NONE"
AUTO_UNTOUCHED == "AUTO_UNTOUCHED"
AUTO_EDITED == "AUTO_EDITED"
MANUAL == "MANUAL"
SKIPPED == "SKIPPED"
ENTRY_STATE == {NONE, AUTO_UNTOUCHED, AUTO_EDITED, MANUAL, SKIPPED}

\* the Unreleased slice: heading to next level-2 heading or end of document
UnreleasedSlice(content) ==
    LET u == IndexOfUnreleased(content)
        n == IndexOfNextSection(content, u + 1)
    IN  SubSeq(content, u, IF n = 0 THEN Len(content) ELSE n - 1)

\* the classification of one matching line (the body of the loop)
ClassifyLine(trimmed, prNumber) ==
    IF HasMarkerForPr(trimmed, prNumber)
    THEN LET storedHash == trimmed[FirstMarker(trimmed)].h
             currentHash == computeEntryHash(DropEntryPrefix(trimmed))
         IN  [state |-> IF currentHash = storedHash THEN AUTO_UNTOUCHED
                        ELSE AUTO_EDITED,
              line |-> trimmed, storedHash |-> storedHash]
    ELSE [state |-> MANUAL, line |-> trimmed, storedHash |-> Null]

\* whether a line of the slice is an entry of the PR
LineMatchesPr(line, prNumber) ==
    LET trimmed == Trim(line)
    IN  /\ StartsWithEntryPrefix(trimmed)
        /\ (HasPrLink(trimmed, prNumber) \/ HasMarkerForPr(trimmed, prNumber))

\* detectEntryState that scans every line of the document
detectEntryState_wholeDocument(changelogContent, prNumber) ==
    LET none == [state |-> NONE, line |-> Null, storedHash |-> Null]
    IN  IF changelogContent = <<>> THEN none
        ELSE IF IndexOfUnreleased(changelogContent) = 0 THEN none
        ELSE LET lines == Split(changelogContent)
                 hit == {i \in 1..Len(lines) : LineMatchesPr(lines[i], prNumber)}
             IN  IF hit = {} THEN none
                 ELSE ClassifyLine(Trim(lines[Min(hit)]), prNumber)

detectEntryState(changelogContent, prNumber) ==
    LET none == [state |-> NONE, line |-> Null, storedHash |-> Null]
    IN  IF changelogContent = <<>> THEN none
        ELSE IF IndexOfUnreleased(changelogContent) = 0 THEN none
        ELSE LET lines == Split(UnreleasedSlice(changelogContent))
                 hit == {i \in 1..Len(lines) : LineMatchesPr(lines[i], prNumber)}
             IN  IF hit = {} THEN none
                 ELSE ClassifyLine(Trim(lines[Min(hit)]), prNumber)

----------------------------------------------------------------------------
(* Conventional-commit parser *)

\* the alternation of conventionalRegex
RegexTypes ==
    {"feat", "fix", "docs", "style", "refactor", "perf", "test", "chore",
     "ci", "build", "revert"}

\* type.toLowerCase(), on the spellings the model uses
ToLowerCase(s) ==
    CASE s \in {"Feat", "FEAT"} -> "feat"
      [] s \in {"Fix", "FIX"} -> "fix"
      [] s \in {"Feature", "FEATURE"} -> "feature"
      [] OTHER -> s

Changes == "Changes"    \* DEFAULT_SECTIONS.CHANGES

COMMIT_TYPE_MAPPING(type) ==
    CASE type \in {"feat", "feature"} -> "Features"
      [] type = "fix" -> "Bug Fixes"
      [] type = "docs" -> "Documentation"
      [] type = "style" -> "Style"
      [] type = "refactor" -> "Refactoring"
      [] type = "perf" -> "Performance"
      [] type = "test" -> "Tests"
      [] type = "chore" -> "Chores"
      [] type = "ci" -> "CI/CD"
      [] type = "build" -> "Build"
      [] type = "revert" -> "Reverts"
      [] OTHER -> Changes

\* position of the ':' of  !?:  when the text from position i on matches
\* !?:\s*(.+)$ , else 0
SeparatorAt(title, i) ==
    LET c == IF i <= Len(title) /\ title[i] = BANG THEN i + 1 ELSE i
    IN  IF c < Len(title) /\ title[c] = COLON THEN c ELSE 0

\* the group (.+) after  :\s*  : \s* is greedy but gives back one character
\* when it would leave nothing for (.+)
DescriptionAfter(title, c) ==
    LET rest == SubSeq(title, c + 1, Len(title))
        keep == {i \in 1..Len(rest) : ~IsWs(rest[i])}
    IN  IF keep = {} THEN <<rest[Len(rest)]>>
        ELSE SubSeq(rest, Min(keep), Len(rest))

\* returns <<entry>> on a match and <<>> for null
parseConventionalCommit(title, prNumber) ==
    IF \/ Len(title) = 0
       \/ \E i \in 1..Len(title) : title[i].k \in {"nl", "cr"}
       \/ title[1].k # "w"
       \/ ToLowerCase(title[1].s) \notin RegexTypes
    THEN <<>>
    ELSE LET type == title[1].s
             section == COMMIT_TYPE_MAPPING(ToLowerCase(type))
             \* (\(.+\))? is greedy: the last ')' after which the rest matches
             scopeEnd == {j \in 4..Len(title) :
                             /\ title[2] = LP
                             /\ title[j] = RP
                             /\ SeparatorAt(title, j + 1) # 0}
         IN  IF scopeEnd # {}
             THEN <<[type |-> type,
                     scope |-> SubSeq(title, 3, Max(scopeEnd) - 1),
                     description |->
                         DescriptionAfter(title, SeparatorAt(title, Max(scopeEnd) + 1)),
                     prNumber |-> prNumber,
                     section |-> section]>>
             ELSE IF SeparatorAt(title, 2) # 0
             THEN <<[type |-> type,
                     scope |-> Null,
                     description |-> DescriptionAfter(title, SeparatorAt(title, 2)),
                     prNumber |-> prNumber,
                     section |-> section]>>
             ELSE <<>>

\* the entry run() builds for a custom text that is no conventional commit
ManualEntry(customText, prNumber) ==
    [type |-> "Manual", scope |-> Null, description |-> customText,
     prNumber |-> prNumber, section |-> Changes]

----------------------------------------------------------------------------
(* Action resolver *)

NoCommand == [command |-> "null", text |-> Null]
SkipCommand == [command |-> "skip", text |-> Null]
RegenerateCommand == [command |-> "regenerate", text |-> Null]
CustomCommand(text) == [command |-> "custom", text |-> text]

\* resolveEntryAction with the custom text of the description ranked above
\* the regenerate command of the comment
resolveEntryAction_customFirst(entryState, prDescCommand, commentCommand, preserveEdited) ==
    IF commentCommand.command = "skip"
    THEN [action |-> "skip", mark |-> FALSE, text |-> Null]
    ELSE IF prDescCommand.command = "skip"
    THEN [action |-> "skip", mark |-> FALSE, text |-> Null]
    ELSE IF prDescCommand.command = "custom"
    THEN [action |-> "custom", mark |-> FALSE, text |-> prDescCommand.text]
    ELSE IF commentCommand.command = "regenerate"
    THEN [action |-> "regenerate", mark |-> TRUE, text |-> Null]
    ELSE IF commentCommand.command = "custom"
    THEN [action |-> "custom", mark |-> FALSE, text |-> commentCommand.text]
    ELSE IF entryState = NONE \/ entryState = AUTO_UNTOUCHED
    THEN [action |-> "generate", mark |-> TRUE, text |-> Null]
    ELSE IF entryState = AUTO_EDITED \/ entryState = MANUAL
    THEN IF preserveEdited
         THEN [action |-> "preserve", mark |-> FALSE, text |-> Null]
         ELSE [action |-> "generate", mark |-> TRUE, text |-> Null]
    ELSE [action |-> "generate", mark |-> TRUE, text |-> Null]

\* resolveEntryAction with the custom text of the comment ranked above the
\* custom text of the description
resolveEntryAction_commentCustomFirst(entryState, prDescCommand, commentCommand, preserveEdited) ==
    IF commentCommand.command = "skip"
    THEN [action |-> "skip", mark |-> FALSE, text |-> Null]
    ELSE IF prDescCommand.command = "skip"
    THEN [action |-> "skip", mark |-> FALSE, text |-> Null]
    ELSE IF commentCommand.command = "regenerate"
    THEN [action |-> "regenerate", mark |-> TRUE, text |-> Null]
    ELSE IF commentCommand.command = "custom"
    THEN [action |-> "custom", mark |-> FALSE, text |-> commentCommand.text]
    ELSE IF prDescCommand.command = "custom"
    THEN [action |-> "custom", mark |-> FALSE, text |-> prDescCommand.text]
    ELSE IF entryState = NONE \/ entryState = AUTO_UNTOUCHED
    THEN [action |-> "generate", mark |-> TRUE, text |-> Null]
    ELSE IF entryState = AUTO_EDITED \/ entryState = MANUAL
    THEN IF preserveEdited
         THEN [action |-> "preserve", mark |-> FALSE, text |-> Null]
         ELSE [action |-> "generate", mark |-> TRUE, text |-> Null]
    ELSE [action |-> "generate", mark |-> TRUE, text |-> Null]

\* resolveEntryAction that generates over an edited or manual entry
resolveEntryAction_neverPreserves(entryState, prDescCommand, commentCommand, preserveEdited) ==
    IF commentCommand.command = "skip"
    THEN [action |-> "skip", mark |-> FALSE, text |-> Null]
    ELSE IF prDescCommand.command = "skip"
    THEN [action |-> "skip", mark |-> FALSE, text |-> Null]
    ELSE IF commentCommand.command = "regenerate"
    THEN [action |-> "regenerate", mark |-> TRUE, text |-> Null]
    ELSE IF prDescCommand.command = "custom"
    THEN [action |-> "custom", mark |-> FALSE, text |-> prDescCommand.text]
    ELSE IF commentCommand.command = "custom"
    THEN [action |-> "custom", mark |-> FALSE, text |-> commentCommand.text]
    ELSE [action |-> "generate", mark |-> TRUE, text |-> Null]

resolveEntryAction(entryState, prDescCommand, commentCommand, preserveEdited) ==
    IF commentCommand.command = "skip"
    THEN [action |-> "skip", mark |-> FALSE, text |-> Null]
    ELSE IF prDescCommand.command = "skip"
    THEN [action |-> "skip", mark |-> FALSE, text |-> Null]
    ELSE IF commentCommand.command = "regenerate"
    THEN [action |-> "regenerate", mark |-> TRUE, text |-> Null]
    ELSE IF prDescCommand.command = "custom"
    THEN [action |-> "custom", mark |-> FALSE, text |-> prDescCommand.text]
    ELSE IF commentCommand.command = "custom"
    THEN [action |-> "custom", mark |-> FALSE, text |-> commentCommand.text]
    ELSE IF entryState = NONE \/ entryState = AUTO_UNTOUCHED
    THEN [action |-> "generate", mark |-> TRUE, text |-> Null]
    ELSE IF entryState = AUTO_EDITED \/ entryState = MANUAL
    THEN IF preserveEdited
         THEN [action |-> "preserve", mark |-> FALSE, text |-> Null]
         ELSE [action |-> "generate", mark |-> TRUE, text |-> Null]
    ELSE [action |-> "generate", mark |-> TRUE, text |-> Null]

----------------------------------------------------------------------------
(* Changelog document editor *)

CHANGELOG_TEMPLATE ==
    <<H1, NL, NL,
      W("All notable changes to this project will be documented in this file."),
      NL, NL,
      W("The format is based on Keep a Changelog,"), NL,
      W("and this project adheres to Semantic Versioning."), NL, NL,
      UNREL, NL, NL>>

\* '\n## [Unreleased]\n\n'
UnreleasedBlock == <<NL, UNREL, NL, NL>>

\* the content with an Unreleased heading: synthesized after the header when absent
EnsureUnreleased(changelogContent) ==
    IF IndexOfUnreleased(changelogContent) # 0 THEN changelogContent
    ELSE LET headerEnd == IndexOfNextSection(changelogContent, 1)
         IN  IF headerEnd = 0 THEN changelogContent \o UnreleasedBlock
             ELSE SubSeq(changelogContent, 1, headerEnd - 1)
                  \o UnreleasedBlock
                  \o SubSeq(changelogContent, headerEnd, Len(changelogContent))

\* one pass of the removal loop: the Unreleased slice without the lines of the PR
RemovePrLines(unreleasedContent, prNumber) ==
    LET lines == Split(unreleasedContent)
        updatedLines == SelectSeq(lines, LAMBDA l : ~LineMatchesPr(l, prNumber))
    IN  IF Len(updatedLines) # Len(lines) THEN Join(updatedLines)
        ELSE unreleasedContent

RECURSIVE RemoveExistingEntries(_, _)
\* entries.forEach(entry => remove the lines of entry.prNumber)
RemoveExistingEntries(unreleasedContent, entries) ==
    IF entries = <<>> THEN unreleasedContent
    ELSE RemoveExistingEntries(RemovePrLines(unreleasedContent, entries[1].prNumber),
                               Tail(entries))

RECURSIVE SectionNames(_)
\* Object.keys(entriesBySection): the sections in order of first use
SectionNames(entries) ==
    IF entries = <<>> THEN <<>>
    ELSE LET init == SectionNames(SubSeq(entries, 1, Len(entries) - 1))
             s == entries[Len(entries)].section
         IN  IF \E i \in 1..Len(init) : init[i] = s THEN init ELSE Append(init, s)

\* `${scopeText}${entry.description} ([#${entry.prNumber}](${entry.prUrl}))`
EntryText(entry) ==
    LET scopeText == IF entry.scope = Null \/ entry.scope = <<>> THEN <<>>
                     ELSE <<BOLD>> \o entry.scope \o <<BOLD, COLON, SP>>
    IN  scopeText \o entry.description \o <<SP, LNK(entry.prNumber)>>

\* the rendered line of an entry
EntryLine(entry, markEntries) ==
    IF markEntries
    THEN <<DASH, SP>> \o buildMarkedEntry(EntryText(entry), entry.prNumber)
    ELSE <<DASH, SP>> \o EntryText(entry)

\* the position at which the entries of a section are inserted
SectionEndIndex(unreleasedContent, sectionName) ==
    LET sectionIndex == IndexOfSubsection(unreleasedContent, sectionName)
        next == IndexOfNextSubsection(unreleasedContent, sectionIndex + 1)
    IN  IF next = 0 THEN Len(unreleasedContent) + 1 ELSE next

\* one pass of the insertion loop, for one section
InsertSection(unreleasedContent, sectionName, entries, markEntries) ==
    LET withHeader ==
            IF IndexOfSubsection(unreleasedContent, sectionName) = 0
            THEN unreleasedContent \o <<NL, H3(sectionName), NL, NL>>
            ELSE unreleasedContent
        sectionEndIndex == SectionEndIndex(withHeader, sectionName)
        sectionEntries == SelectSeq(entries, LAMBDA e : e.section = sectionName)
        newEntries == [i \in 1..Len(sectionEntries) |->
                          EntryLine(sectionEntries[i], markEntries)]
        newEntriesText == Join(newEntries) \o <<NL>>
    IN  SubSeq(withHeader, 1, sectionEndIndex - 1)
        \o newEntriesText
        \o SubSeq(withHeader, sectionEndIndex, Len(withHeader))

RECURSIVE InsertSections(_, _, _, _)
InsertSections(unreleasedContent, names, entries, markEntries) ==
    IF names = <<>> THEN unreleasedContent
    ELSE InsertSections(InsertSection(unreleasedContent, names[1], entries, markEntries),
                        Tail(names), entries, markEntries)

\* NewChangelogContent that forgets the text after the Unreleased section
NewChangelogContent_dropsRest(changelogContent, entries, markEntries) ==
    LET unreleasedIndex == IndexOfUnreleased(changelogContent)
        found == IndexOfNextSection(changelogContent, unreleasedIndex + 1)
        nextSectionIndex == IF found = 0 THEN Len(changelogContent) + 1 ELSE found
        unreleasedContent ==
            SubSeq(changelogContent, unreleasedIndex, nextSectionIndex - 1)
        removed == RemoveExistingEntries(unreleasedContent, entries)
        inserted == InsertSections(removed, SectionNames(entries), entries, markEntries)
    IN  SubSeq(changelogContent, 1, unreleasedIndex - 1) \o inserted

\* the document updateChangelog computes from the text it starts from
NewChangelogContent(changelogContent, entries, markEntries) ==
    LET unreleasedIndex == IndexOfUnreleased(changelogContent)
        found == IndexOfNextSection(changelogContent, unreleasedIndex + 1)
        nextSectionIndex == IF found = 0 THEN Len(changelogContent) + 1 ELSE found
        unreleasedContent ==
            SubSeq(changelogContent, unreleasedIndex, nextSectionIndex - 1)
        restContent == SubSeq(changelogContent, nextSectionIndex, Len(changelogContent))
        removed == RemoveExistingEntries(unreleasedContent, entries)
        inserted == InsertSections(removed, SectionNames(entries), entries, markEntries)
    IN  SubSeq(changelogContent, 1, unreleasedIndex - 1) \o inserted \o restContent

\* result: the returned boolean; exists/content: the file afterwards
updateChangelog(exists, content, entries, markEntries) ==
    LET changelogContent ==
            EnsureUnreleased(IF exists THEN content ELSE CHANGELOG_TEMPLATE)
        newChangelogContent == NewChangelogContent(changelogContent, entries, markEntries)
    IN  IF changelogContent = newChangelogContent
        THEN [result |-> FALSE, exists |-> exists, content |-> content]
        ELSE [result |-> TRUE, exists |-> TRUE, content |-> newChangelogContent]

\* updatedContent of removeAutoGeneratedEntries: every kept line followed by '\n'
RECURSIVE ConcatLines(_)
ConcatLines(lines) ==
    IF lines = <<>> THEN <<>>
    ELSE lines[1] \o <<NL>> \o ConcatLines(Tail(lines))

\* removed: whether a line matched (then the file is written and a commit made)
removeAutoGeneratedEntries(exists, content, prNumber) ==
    IF ~exists THEN [removed |-> FALSE, exists |-> exists, content |-> content]
    ELSE LET lines == Split(content)
             kept == SelectSeq(lines, LAMBDA l : ~LineMatchesPr(l, prNumber))
         IN  IF Len(kept) # Len(lines)
             THEN [removed |-> TRUE, exists |-> TRUE,
                   content |-> Trim(ConcatLines(kept))]
             ELSE [removed |-> FALSE, exists |-> exists, content |-> content]

----------------------------------------------------------------------------
(* Inputs of the runs *)

MaxSteps == 3       \* runs per behaviour

PRs == {1, 2}       \* the pull requests the runs are for
OtherPr == Max(PRs) + 1    \* a pull request no run is for: its entries are unrelated
OldPr == Max(PRs) + 2      \* a pull request of a released version

\* pr.title
Titles ==
    {<<W("feat"), COLON, SP, W("add"), SP, W("login")>>,
     <<W("fix"), LP, W("core"), RP, COLON, SP, W("crash")>>,
     <<W("update"), SP, W("readme")>>}

\* the free text of a custom command
CustomTexts == {<<W("Improved"), SP, W("errors")>>}

DescCommands == {NoCommand, SkipCommand} \cup {CustomCommand(c) : c \in CustomTexts}

CommentCommands ==
    {NoCommand, SkipCommand, RegenerateCommand}
        \cup {CustomCommand(c) : c \in CustomTexts}

\* lines of changelog documents the runs start from
MarkedLine(title, prNumber) ==
    EntryLine(parseConventionalCommit(title, prNumber)[1], TRUE)

ManualLine(text, prNumber) == EntryLine(ManualEntry(text, prNumber), FALSE)

FeatTitle == <<W("feat"), COLON, SP, W("old"), SP, W("text")>>

\* a document of the changelog format: with or without blank lines between the
\* parts, with or without a newline at its end, with or without a released
\* version, its Unreleased section empty, holding an emptied sub-section, or
\* holding two sub-sections with one entry each
DocLines(blank, rel, body) ==
    LET gap == IF blank THEN << <<>> >> ELSE <<>>
    IN  << <<H1>>, <<>>, <<UNREL>> >>
        \o (IF body = "empty" THEN <<>>
            ELSE IF body = "head" THEN gap \o << <<H3("Features")>> >>
            ELSE gap \o << <<H3("Features")>>, MarkedLine(FeatTitle, 1) >>
                 \o gap \o << <<H3("Bug Fixes")>>,
                              ManualLine(<<W("manual"), SP, W("fix")>>, OtherPr) >>)
        \o (IF rel
            THEN gap \o << <<REL("1.0.0")>> >> \o gap
                 \o << <<H3("Features")>>, ManualLine(<<W("released")>>, OldPr) >>
            ELSE <<>>)

Doc(blank, trail, rel, body) ==
    Join(DocLines(blank, rel, body)) \o (IF trail THEN <<NL>> ELSE <<>>)

InitDocs ==
    {Doc(blank, trail, rel, body) :
        blank \in BOOLEAN, trail \in BOOLEAN, rel \in BOOLEAN,
        body \in {"empty", "head", "both"}}

NoProbe == [kind |-> "none"]

NoLast ==
    [op |-> "init", pr |-> 0, entries |-> <<>>, mark |-> FALSE, result |-> FALSE,
     beforeExists |-> FALSE, before |-> <<>>]

NoHist == [steps |-> 0, prs |-> {}, updatesOnly |-> TRUE]

\* the changelog file is missing, or holds a document of the format
Init ==
    /\ \/ fileExists = FALSE /\ fileContent = <<>>
       \/ fileExists = TRUE /\ fileContent \in InitDocs
    /\ last = NoLast
    /\ hist = NoHist
    /\ probe = NoProbe

\* a missing changelog file
InitFresh ==
    /\ fileExists = FALSE
    /\ fileContent = <<>>
    /\ last = NoLast
    /\ hist = NoHist
    /\ probe = NoProbe

----------------------------------------------------------------------------
(* run(): one run of the action for a pull request *)

\* what run() reads of the file before it detects the entry state
ReadChangelog == IF fileExists THEN fileContent ELSE <<>>

\* the decisions the run can resolve to, over the commands it can gather
Decisions(prNumber) ==
    LET entryState == detectEntryState(ReadChangelog, prNumber).state
    IN  {resolveEntryAction(entryState, d, c, pe) :
            d \in DescCommands, c \in CommentCommands, pe \in BOOLEAN}

\* some commands make the run resolve to the action
Resolves(prNumber, action) ==
    {decision \in Decisions(prNumber) : decision.action = action} # {}

Record(op, prNumber, entries, mark, result, updates) ==
    /\ last' = [op |-> op, pr |-> prNumber, entries |-> entries, mark |-> mark,
                result |-> result, beforeExists |-> fileExists,
                before |-> fileContent]
    /\ hist' = [steps |-> hist.steps + 1,
                prs |-> IF updates THEN hist.prs \cup {prNumber} ELSE hist.prs,
                updatesOnly |-> hist.updatesOnly /\ updates]
    /\ UNCHANGED probe

\* the update of the file with the entries the run built, and its result
Update(op, prNumber, entries, mark) ==
    IF entries = <<>>
    THEN /\ UNCHANGED <<fileExists, fileContent>>
         /\ Record(op, prNumber, entries, mark, FALSE, TRUE)
    ELSE LET r == updateChangelog(fileExists, fileContent, entries, mark)
         IN  /\ fileExists' = r.exists
             /\ fileContent' = r.content
             /\ Record(op, prNumber, entries, mark, r.result, TRUE)

\* decision.action === 'skip'; the skip check before the decision ends in the
\* same call of removeAutoGeneratedEntries
RunSkip ==
    \E p \in PRs :
        /\ hist.steps < MaxSteps
        /\ Resolves(p, "skip")
        /\ LET r == removeAutoGeneratedEntries(fileExists, fileContent, p)
           IN  /\ fileExists' = r.exists
               /\ fileContent' = r.content
               /\ Record("skip", p, <<>>, FALSE, r.removed, FALSE)

\* decision.action === 'preserve'
RunPreserve ==
    \E p \in PRs :
        /\ hist.steps < MaxSteps
        /\ Resolves(p, "preserve")
        /\ UNCHANGED <<fileExists, fileContent>>
        /\ Record("preserve", p, <<>>, FALSE, FALSE, FALSE)

\* decision.action === 'generate': the entry comes from the PR title
RunGenerate ==
    \E p \in PRs, title \in Titles :
        /\ hist.steps < MaxSteps
        /\ Resolves(p, "generate")
        /\ Update("generate", p, parseConventionalCommit(title, p), TRUE)

\* decision.action === 'regenerate': the entry comes from the PR title
RunRegenerate ==
    \E p \in PRs, title \in Titles :
        /\ hist.steps < MaxSteps
        /\ Resolves(p, "regenerate")
        /\ Update("regenerate", p, parseConventionalCommit(title, p), TRUE)

\* the entry of a custom text
CustomEntries(customText, prNumber) ==
    IF parseConventionalCommit(customText, prNumber) # <<>>
    THEN parseConventionalCommit(customText, prNumber)
    ELSE <<ManualEntry(customText, prNumber)>>

\* decision.action === 'custom'
RunCustom ==
    \E p \in PRs :
        \E decision \in Decisions(p) :
            /\ hist.steps < MaxSteps
            /\ decision.action = "custom"
            /\ Update("custom", p, CustomEntries(decision.text, p), decision.mark)

Next == RunSkip \/ RunPreserve \/ RunGenerate \/ RunRegenerate \/ RunCustom

Spec == Init /\ [][Next]_vars

SpecFresh == InitFresh /\ [][Next]_vars

----------------------------------------------------------------------------
(* updateChangelog called directly, as the tests call it *)

MaxCalls == 1       \* direct calls per behaviour

\* the entries the calls pass
CallEntries ==
    {parseConventionalCommit(t, p)[1] :
        t \in {t \in Titles : parseConventionalCommit(t, 1) # <<>>}, p \in PRs}
    \cup {ManualEntry(c, 2) : c \in CustomTexts}

\* non-empty entry lists: one entry, or two different entries
EntryLists ==
    {<<e>> : e \in CallEntries}
    \cup {<<pair[1], pair[2]>> :
            pair \in {q \in CallEntries \X CallEntries : q[1] # q[2]}}

CallUpdateChangelog ==
    \E entries \in EntryLists, markEntries \in BOOLEAN :
        /\ hist.steps < MaxCalls
        /\ LET r == updateChangelog(fileExists, fileContent, entries, markEntries)
           IN  /\ fileExists' = r.exists
               /\ fileContent' = r.content
               /\ Record("update", entries[1].prNumber, entries, markEntries,
                         r.result, TRUE)

NextUpdate == CallUpdateChangelog

SpecUpdate == Init /\ [][NextUpdate]_vars

----------------------------------------------------------------------------
(* resolveEntryAction applied to every combination of its inputs *)

ProbeCommands ==
    {NoCommand, SkipCommand, RegenerateCommand,
     CustomCommand(<<W("from"), SP, W("description")>>),
     CustomCommand(<<W("from"), SP, W("comment")>>)}

NoDecision == [action |-> "none", mark |-> FALSE, text |-> Null]

InitResolve ==
    /\ fileExists = FALSE
    /\ fileContent = <<>>
    /\ last = NoLast
    /\ hist = NoHist
    /\ probe \in {[kind |-> "resolve", entryState |-> st, prDescCommand |-> d,
                   commentCommand |-> c, preserveEdited |-> pe, done |-> FALSE,
                   decision |-> NoDecision] :
                     st \in ENTRY_STATE, d \in ProbeCommands, c \in ProbeCommands,
                     pe \in BOOLEAN}

ApplyResolve ==
    /\ probe.kind = "resolve"
    /\ ~probe.done
    /\ probe' = [probe EXCEPT
                    !.done = TRUE,
                    !.decision = resolveEntryAction(probe.entryState,
                                                    probe.prDescCommand,
                                                    probe.commentCommand,
                                                    probe.preserveEdited)]
    /\ UNCHANGED <<fileExists, fileContent, last, hist>>

SpecResolve == InitResolve /\ [][ApplyResolve]_vars

----------------------------------------------------------------------------
(* computeEntryHash and buildMarkedEntry applied to every short text *)

MaxTextLen == 3     \* tokens per text

\* markers some other run or a user could have written into a text
ForeignMarkers == {MK(<<W("aa")>>, 1), MK(<<W("bb")>>, 2)}

TextAlphabet == {W("a"), SP, NL, CR} \cup ForeignMarkers

Texts == UNION {[1..n -> TextAlphabet] : n \in 0..MaxTextLen}

\* the text with every LF written as CRLF
RECURSIVE ToCRLF(_)
ToCRLF(text) ==
    IF text = <<>> THEN <<>>
    ELSE (IF text[1] = NL THEN <<CR, NL>> ELSE <<text[1]>>) \o ToCRLF(Tail(text))

InitCodec ==
    /\ fileExists = FALSE
    /\ fileContent = <<>>
    /\ last = NoLast
    /\ hist = NoHist
    /\ probe \in {[kind |-> "codec", text |-> t, prNumber |-> p, marker |-> m,
                   done |-> FALSE, hash |-> Null, hashMarked |-> Null,
                   hashCRLF |-> Null, marked |-> Null, markedTwice |-> Null] :
                     t \in Texts, p \in PRs, m \in ForeignMarkers}

ApplyCodec ==
    /\ probe.kind = "codec"
    /\ ~probe.done
    /\ probe' = [probe EXCEPT
                    !.done = TRUE,
                    !.hash = computeEntryHash(probe.text),
                    !.hashMarked = computeEntryHash(probe.text \o <<SP, probe.marker>>),
                    !.hashCRLF = computeEntryHash(ToCRLF(probe.text)),
                    !.marked = buildMarkedEntry(probe.text, probe.prNumber),
                    !.markedTwice =
                        buildMarkedEntry(buildMarkedEntry(probe.text, probe.prNumber),
                                         probe.prNumber)]
    /\ UNCHANGED <<fileExists, fileContent, last, hist>>

SpecCodec == InitCodec /\ [][ApplyCodec]_vars

----------------------------------------------------------------------------
(* detectEntryState applied to a marked line whose visible text a user edited *)

\* the entry texts updateChangelog renders for the entries of CallEntries
RenderedTexts == {[text |-> EntryText(e), prNumber |-> e.prNumber] : e \in CallEntries}

\* the visible text of a marked entry: all of it but the space and the marker
VisibleText(marked) == SubSeq(marked, 1, Len(marked) - 2)

\* the edits of one token of a visible text v: insert a word, a space or a
\* carriage return anywhere, delete a token, replace a token by a word
Edits(v) ==
    {[op |-> "none", at |-> 0, tok |-> SP]}
    \cup {[op |-> "insert", at |-> i, tok |-> t] :
            i \in 0..Len(v), t \in {W("new"), SP, CR}}
    \cup {[op |-> "delete", at |-> i, tok |-> SP] : i \in 1..Len(v)}
    \cup {[op |-> "replace", at |-> i, tok |-> W("new")] : i \in 1..Len(v)}

ApplyEdit(v, e) ==
    CASE e.op = "none" -> v
      [] e.op = "insert" -> SubSeq(v, 1, e.at) \o <<e.tok>> \o SubSeq(v, e.at + 1, Len(v))
      [] e.op = "delete" -> SubSeq(v, 1, e.at - 1) \o SubSeq(v, e.at + 1, Len(v))
      [] e.op = "replace" -> [v EXCEPT ![e.at] = e.tok]

\* a changelog whose Unreleased section holds the line as a list item
DocWithEntry(line) ==
    <<H1, NL, NL, UNREL, NL, NL, H3("Features"), NL, DASH, SP>> \o line \o <<NL>>

\* the marked line of the text with its visible text edited, marker untouched
EditedLine(text, prNumber, e) ==
    LET marked == buildMarkedEntry(text, prNumber)
    IN  ApplyEdit(VisibleText(marked), e) \o <<SP, marked[Len(marked)]>>

InitDetect ==
    /\ fileExists = FALSE
    /\ fileContent = <<>>
    /\ last = NoLast
    /\ hist = NoHist
    /\ probe \in {[kind |-> "detect", text |-> r.text, prNumber |-> r.prNumber,
                   edit |-> e, done |-> FALSE, state |-> NONE] :
                     r \in RenderedTexts,
                     e \in UNION {Edits(VisibleText(buildMarkedEntry(q.text, q.prNumber))) :
                                     q \in RenderedTexts}}
    /\ probe.edit \in Edits(VisibleText(buildMarkedEntry(probe.text, probe.prNumber)))

ApplyDetect ==
    /\ probe.kind = "detect"
    /\ ~probe.done
    /\ probe' = [probe EXCEPT
                    !.done = TRUE,
                    !.state =
                        detectEntryState(
                            DocWithEntry(EditedLine(probe.text, probe.prNumber,
                                                    probe.edit)),
                            probe.prNumber).state]
    /\ UNCHANGED <<fileExists, fileContent, last, hist>>

SpecDetect == InitDetect /\ [][ApplyDetect]_vars

----------------------------------------------------------------------------
(* Command parser *)

CL == Tok("cl", 0, "", <<>>)            \* "/changelog"
CHK == Tok("chk", 0, "", <<>>)          \* "[x]"
UNCHK == Tok("unchk", 0, "", <<>>)      \* "[ ]"

SKIP_CHECKBOX == <<CHK, SP, W("skip"), SP, W("changelog")>>
SKIP_COMMAND_SLASH == <<CL, COLON, SP, W("skip")>>
SKIP_COMMAND == <<CL, SP, W("skip")>>
REGENERATE_COMMAND_SLASH == <<CL, COLON, SP, W("regenerate")>>
REGENERATE_COMMAND == <<CL, SP, W("regenerate")>>
CHECKED == <<CHK, SP, W("auto-generate"), SP, W("changelog")>>
UNCHECKED == <<UNCHK, SP, W("auto-generate"), SP, W("changelog")>>

\* core.getInput('comment-trigger'), at its default '/changelog:'
commentTrigger == <<CL, COLON>>

\* a word of the texts that begins with another word
WordStartsWith(word, prefix) ==
    word = prefix \/ <<word, prefix>> \in {<<"skipping", "skip">>, <<"changelogs", "changelog">>}

\* the token begins with the text of the pattern's token
TokStartsWith(t, p) ==
    t = p \/ (t.k = "w" /\ p.k = "w" /\ WordStartsWith(t.s, p.s))

\* text.includes(pattern): the pattern may end inside a word of the text
Includes(text, pattern) ==
    \E i \in 0..(Len(text) - Len(pattern)) :
        /\ \A j \in 1..(Len(pattern) - 1) : text[i + j] = pattern[j]
        /\ TokStartsWith(text[i + Len(pattern)], pattern[Len(pattern)])

\* text.startsWith(prefix), for a prefix that ends with a whole token
StartsWith(text, prefix) ==
    Len(text) >= Len(prefix) /\ SubSeq(text, 1, Len(prefix)) = prefix

\* trimmed.replace(trigger, '').trim() of a line that starts with the trigger
AfterTrigger(trimmed, trigger) ==
    Trim(SubSeq(trimmed, Len(trigger) + 1, Len(trimmed)))

\* the body of the inner loop of parseCommentCommands: the command of one line
CommandOfLine(line, trigger) ==
    LET trimmed == Trim(line)
    IN  IF trimmed = SKIP_COMMAND \/ trimmed = SKIP_COMMAND_SLASH THEN SkipCommand
        ELSE IF trimmed = REGENERATE_COMMAND \/ trimmed = REGENERATE_COMMAND_SLASH
        THEN RegenerateCommand
        ELSE IF StartsWith(trimmed, trigger)
        THEN LET text == AfterTrigger(trimmed, trigger)
             IN  IF text # <<>> /\ text # <<W("skip")>> /\ text # <<W("regenerate")>>
                 THEN CustomCommand(text)
                 ELSE NoCommand
        ELSE NoCommand

\* the command of the first line of the body that has one
CommandOfBody(body, trigger) ==
    LET lines == Split(Trim(body))
        hit == {i \in 1..Len(lines) : CommandOfLine(lines[i], trigger) # NoCommand}
    IN  IF hit = {} THEN NoCommand ELSE CommandOfLine(lines[Min(hit)], trigger)

RECURSIVE SortByRecency(_)
\* [...comments].sort((a, b) => new Date(b.created_at) - new Date(a.created_at)):
\* latest first, comments of the same time in their input order
SortByRecency(comments) ==
    IF comments = <<>> THEN <<>>
    ELSE LET latest == Min({i \in 1..Len(comments) :
                               \A j \in 1..Len(comments) :
                                   comments[j].created_at <= comments[i].created_at})
         IN  <<comments[latest]>>
             \o SortByRecency(SubSeq(comments, 1, latest - 1)
                              \o SubSeq(comments, latest + 1, Len(comments)))

\* parseCommentCommands that scans the comments in their input order
parseCommentCommands_unsorted(comments, trigger) ==
    LET hit == {i \in 1..Len(comments) : CommandOfBody(comments[i].body, trigger) # NoCommand}
    IN  IF hit = {} THEN NoCommand ELSE CommandOfBody(comments[Min(hit)].body, trigger)

parseCommentCommands(comments, trigger) ==
    LET sorted == SortByRecency(comments)
        hit == {i \in 1..Len(sorted) : CommandOfBody(sorted[i].body, trigger) # NoCommand}
    IN  IF hit = {} THEN NoCommand ELSE CommandOfBody(sorted[Min(hit)].body, trigger)

----------------------------------------------------------------------------
(* parseCommentCommands applied to every short list of comments *)

MaxComments == 3    \* comments per list

Times == 1..2       \* created_at

CommentBodies ==
    {<<W("just"), SP, W("comment")>>,
     SKIP_COMMAND,
     REGENERATE_COMMAND_SLASH,
     commentTrigger \o <<SP, W("new"), SP, W("entry")>>,
     <<W("context"), NL>> \o commentTrigger \o <<SP, W("the"), SP, W("entry"), NL>>
         \o SKIP_COMMAND,
     commentTrigger \o <<SP, SP, W("regenerate"), NL, SP>> \o SKIP_COMMAND_SLASH \o <<SP>>}

Comments == {[created_at |-> t, body |-> b] : t \in Times, b \in CommentBodies}

CommentLists == UNION {[1..n -> Comments] : n \in 0..MaxComments}

InitComments ==
    /\ fileExists = FALSE
    /\ fileContent = <<>>
    /\ last = NoLast
    /\ hist = NoHist
    /\ probe \in {[kind |-> "comments", comments |-> cs, done |-> FALSE,
                   command |-> NoCommand] : cs \in CommentLists}

ApplyComments ==
    /\ probe.kind = "comments"
    /\ ~probe.done
    /\ probe' = [probe EXCEPT
                    !.done = TRUE,
                    !.command = parseCommentCommands(probe.comments, commentTrigger)]
    /\ UNCHANGED <<fileExists, fileContent, last, hist>>

SpecComments == InitComments /\ [][ApplyComments]_vars

----------------------------------------------------------------------------
(* Commands of the PR description *)

\* returns <<entry>> for the first trigger line with a text, <<>> for null
parseChangelogComment(comment, trigger, prNumber) ==
    LET lines == Split(comment)
        hit == {i \in 1..Len(lines) :
                   /\ StartsWith(Trim(lines[i]), trigger)
                   /\ AfterTrigger(Trim(lines[i]), trigger) # <<>>}
    IN  IF hit = {} THEN <<>>
        ELSE LET description == AfterTrigger(Trim(lines[Min(hit)]), trigger)
                 conventionalEntry == parseConventionalCommit(description, prNumber)
             IN  IF conventionalEntry # <<>> THEN conventionalEntry
                 ELSE <<ManualEntry(description, prNumber)>>

\* whether run() parses the description with parseChangelogComment
DescriptionIsParsed(body, trigger) ==
    /\ body # <<>>
    /\ ~(Includes(body, SKIP_COMMAND_SLASH) \/ Includes(body, SKIP_COMMAND))
    /\ Includes(body, trigger)

\* prDescCommand._parsedEntry: <<entry>>, or <<>> when there is none
parsedEntry(body, trigger, prNumber) ==
    IF DescriptionIsParsed(body, trigger)
    THEN parseChangelogComment(body, trigger, prNumber)
    ELSE <<>>

\* prDescCommand as run() gathers it from pr.body (<<>> is a null or empty body)
prDescCommand(body, trigger, prNumber) ==
    IF body = <<>> THEN NoCommand
    ELSE IF Includes(body, SKIP_COMMAND_SLASH) \/ Includes(body, SKIP_COMMAND)
    THEN SkipCommand
    ELSE LET scopeText(scope) ==
                 IF scope = Null \/ scope = <<>> THEN <<>>
                 ELSE <<BOLD>> \o scope \o <<BOLD, COLON, SP>>
             command(parsed) ==
                 IF parsed = <<>> THEN NoCommand
                 ELSE CustomCommand(scopeText(parsed[1].scope) \o parsed[1].description)
         IN  command(parsedEntry(body, trigger, prNumber))

----------------------------------------------------------------------------
(* The description scan and the comment scan applied to the same text *)

BodyLines ==
    {<<W("plain"), SP, W("text")>>,
     SKIP_COMMAND,
     <<W("do"), SP, W("not"), SP>> \o SKIP_COMMAND \o <<SP, W("this")>>,
     <<SP>> \o SKIP_COMMAND_SLASH \o <<SP>>,
     commentTrigger \o <<SP, W("Improved"), SP, W("errors")>>,
     commentTrigger \o <<SP, W("feat"), LP, W("core"), RP, COLON, SP, W("add")>>,
     REGENERATE_COMMAND_SLASH,
     REGENERATE_COMMAND,
     commentTrigger}

\* descriptions of no, one or two lines
Bodies ==
    {<<>>} \cup BodyLines \cup {a \o <<NL>> \o b : a \in BodyLines, b \in BodyLines}

InitDescription ==
    /\ fileExists = FALSE
    /\ fileContent = <<>>
    /\ last = NoLast
    /\ hist = NoHist
    /\ probe \in {[kind |-> "description", body |-> b, prNumber |-> p, done |-> FALSE,
                   fromDescription |-> NoCommand, fromComment |-> NoCommand] :
                     b \in Bodies, p \in PRs}

ApplyDescription ==
    /\ probe.kind = "description"
    /\ ~probe.done
    /\ probe' = [probe EXCEPT
                    !.done = TRUE,
                    !.fromDescription =
                        prDescCommand(probe.body, commentTrigger, probe.prNumber),
                    !.fromComment =
                        parseCommentCommands(<<[created_at |-> 1, body |-> probe.body]>>,
                                             commentTrigger)]
    /\ UNCHANGED <<fileExists, fileContent, last, hist>>

SpecDescription == InitDescription /\ [][ApplyDescription]_vars

----------------------------------------------------------------------------
(* parseConventionalCommit applied to titles of and not of the format *)

\* spellings of the first word of a title
TypeWords ==
    RegexTypes \cup {"feature", "Feat", "FEAT", "Fix", "FIX", "Feature", "FEATURE",
                     "update"}

\* the title  type(scope)!: description  with or without each optional part,
\* and with or without the ':'
RenderTitle(type, scope, bang, colon, description) ==
    <<W(type)>>
    \o (IF scope = Null THEN <<>> ELSE <<LP>> \o scope \o <<RP>>)
    \o (IF bang THEN <<BANG>> ELSE <<>>)
    \o (IF colon THEN <<COLON>> ELSE <<>>)
    \o <<SP>> \o description

TitleParts ==
    [type : TypeWords,
     scope : {Null, <<W("core")>>},
     bang : BOOLEAN,
     colon : BOOLEAN,
     description : {<<W("add"), SP, W("login")>>, <<W("a"), COLON, SP, W("b")>>}]

InitParse ==
    /\ fileExists = FALSE
    /\ fileContent = <<>>
    /\ last = NoLast
    /\ hist = NoHist
    /\ probe \in {[kind |-> "parse", parts |-> t, prNumber |-> p, done |-> FALSE,
                   entry |-> <<>>] : t \in TitleParts, p \in PRs}

ApplyParse ==
    /\ probe.kind = "parse"
    /\ ~probe.done
    /\ probe' = [probe EXCEPT
                    !.done = TRUE,
                    !.entry =
                        parseConventionalCommit(
                            RenderTitle(probe.parts.type, probe.parts.scope,
                                        probe.parts.bang, probe.parts.colon,
                                        probe.parts.description),
                            probe.prNumber)]
    /\ UNCHANGED <<fileExists, fileContent, last, hist>>

SpecParse == InitParse /\ [][ApplyParse]_vars

----------------------------------------------------------------------------
(* run() with its inputs, its outputs and its failures *)

AUTO == "auto"          \* BEHAVIOR_MODES.AUTO
OPT_IN == "opt-in"      \* BEHAVIOR_MODES.OPT_IN

\* shouldSkipChangelog without the check of the labels
shouldSkipChangelog_ignoresLabels(body, defaultBehavior, skipLabelMatch) ==
    IF defaultBehavior = AUTO
    THEN \/ Includes(body, SKIP_CHECKBOX)
         \/ Includes(body, SKIP_COMMAND_SLASH)
         \/ Includes(body, SKIP_COMMAND)
    ELSE IF defaultBehavior = OPT_IN THEN ~Includes(body, CHECKED)
    ELSE FALSE

\* skipLabelMatch: skipLabels.some(sl => prLabelNames.includes(sl))
shouldSkipChangelog(body, defaultBehavior, skipLabelMatch) ==
    IF defaultBehavior = AUTO
    THEN \/ Includes(body, SKIP_CHECKBOX)
         \/ Includes(body, SKIP_COMMAND_SLASH)
         \/ Includes(body, SKIP_COMMAND)
         \/ skipLabelMatch
    ELSE IF defaultBehavior = OPT_IN THEN ~Includes(body, CHECKED)
    ELSE FALSE

\* commentCommand that uses the comments although fetching them failed
commentCommandOf_ignoresFailure(in) ==
    parseCommentCommands(in.comments, commentTrigger)

\* commentCommand: null when listComments throws, else the parsed comments
commentCommandOf(in) ==
    IF in.fetchFails THEN NoCommand
    ELSE parseCommentCommands(in.comments, commentTrigger)

\* commitChanges: reading the branch from payload.pull_request throws when
\* the event has none; git status without a change of the file ends the
\* commit silently; a failing git commit or push throws
commitChanges(in) ==
    IF in.eventName # "pull_request" THEN "throws"
    ELSE IF in.statusEmpty THEN "nothing"
    ELSE IF in.commitFails THEN "throws"
    ELSE "committed"

commitThrows(in) == commitChanges(in) = "throws"

\* removeAutoGeneratedEntries with its write and its commit: an exception of
\* either is caught and logged
RemoveEntries(exists, content, in) ==
    LET after(r) ==
            IF ~r.removed
            THEN [exists |-> exists, content |-> content, wrote |-> FALSE,
                  commitInvoked |-> FALSE, committed |-> FALSE, logged |-> FALSE]
            ELSE IF in.writeFails
            THEN [exists |-> exists, content |-> content, wrote |-> FALSE,
                  commitInvoked |-> FALSE, committed |-> FALSE, logged |-> TRUE]
            ELSE [exists |-> r.exists, content |-> r.content, wrote |-> TRUE,
                  commitInvoked |-> TRUE,
                  committed |-> commitChanges(in) = "committed",
                  logged |-> commitThrows(in)]
    IN  after(removeAutoGeneratedEntries(exists, content, in.prNumber))

\* updateChangelog with its write: an exception is caught, logged and
\* answered with false
WriteChangelog(exists, content, entries, markEntries, in) ==
    LET after(u) ==
            IF u.result /\ in.writeFails
            THEN [result |-> FALSE, exists |-> exists, content |-> content,
                  wrote |-> FALSE, logged |-> TRUE]
            ELSE [result |-> u.result, exists |-> u.exists, content |-> u.content,
                  wrote |-> u.result, logged |-> FALSE]
    IN  after(updateChangelog(exists, content, entries, markEntries))

Unset == "unset"    \* an output the run did not set

\* what a run leaves behind: the file, core.setFailed, the outputs, the
\* decision, and whether it wrote, called commitChanges, committed or logged
\* an error
Outcome(exists, content) ==
    [exists |-> exists, content |-> content, failed |-> FALSE,
     updated |-> Unset, added |-> Unset, entryState |-> Unset, action |-> "none",
     wrote |-> FALSE, commitInvoked |-> FALSE, committed |-> FALSE,
     logged |-> FALSE]

\* the skip before the decision, in auto and in opt-in mode
EarlySkip(exists, content, in) ==
    LET removes == in.defaultBehavior = AUTO \/ Includes(in.body, UNCHECKED)
        after(r) ==
            [Outcome(r.exists, r.content) EXCEPT
                !.updated = "false", !.added = 0, !.entryState = SKIPPED,
                !.wrote = r.wrote, !.commitInvoked = r.commitInvoked,
                !.committed = r.committed, !.logged = r.logged]
    IN  after(IF removes THEN RemoveEntries(exists, content, in)
              ELSE [exists |-> exists, content |-> content, wrote |-> FALSE,
                    commitInvoked |-> FALSE, committed |-> FALSE,
                    logged |-> FALSE])

\* changelogEntries for generate, regenerate and custom
changelogEntries(decision, in) ==
    LET fromDescription(parsed) ==
            IF parsed # <<>> /\ decision.action # "regenerate" THEN parsed
            ELSE IF in.autoCategorize
            THEN parseConventionalCommit(in.title, in.prNumber)
            ELSE <<>>
    IN  IF decision.action = "custom"
        THEN CustomEntries(decision.text, in.prNumber)
        ELSE fromDescription(parsedEntry(in.body, commentTrigger, in.prNumber))

\* the outcome when the decision is taken: entry-state and action are known
StartOutcome(exists, content, entryState, decision) ==
    [Outcome(exists, content) EXCEPT
        !.entryState = entryState, !.action = decision.action]

\* shouldCommit: always in auto mode, with the checked checkbox in opt-in mode
shouldCommit(in) ==
    \/ in.defaultBehavior = AUTO
    \/ in.defaultBehavior = OPT_IN /\ Includes(in.body, CHECKED)

\* the outputs after updateChangelog answered w, and the commit
CommitOutcome(start, entries, w, in) ==
    LET written == [start EXCEPT !.exists = w.exists, !.content = w.content,
                                 !.wrote = w.wrote, !.logged = w.logged]
    IN  IF ~w.result THEN [written EXCEPT !.updated = "false", !.added = 0]
        ELSE IF shouldCommit(in) /\ commitThrows(in)
        THEN [written EXCEPT !.failed = TRUE, !.logged = TRUE,
                             !.commitInvoked = TRUE]
        ELSE [written EXCEPT !.updated = "true", !.added = Len(entries),
                             !.commitInvoked = shouldCommit(in),
                             !.committed = shouldCommit(in)
                                           /\ commitChanges(in) = "committed"]

\* the run from the entries on: none to add, or the update and the commit
UpdateOutcome(exists, content, decision, entryState, in, entries) ==
    IF entries = <<>>
    THEN [StartOutcome(exists, content, entryState, decision) EXCEPT
             !.updated = "false", !.added = 0]
    ELSE CommitOutcome(StartOutcome(exists, content, entryState, decision), entries,
                       WriteChangelog(exists, content, entries, decision.mark, in), in)

\* the update of the changelog and the commit after it
UpdateAndCommit(exists, content, decision, entryState, in) ==
    UpdateOutcome(exists, content, decision, entryState, in,
                  changelogEntries(decision, in))

\* the outcome of the skip action: the removal r, changelog-updated true
SkipOutcome(start, r) ==
    [start EXCEPT !.exists = r.exists, !.content = r.content,
                  !.updated = "true", !.added = 0, !.wrote = r.wrote,
                  !.commitInvoked = r.commitInvoked,
                  !.committed = r.committed, !.logged = r.logged]

\* the run from the decision on
ActionOutcome(exists, content, in, entryState, decision) ==
    IF decision.action = "skip"
    THEN SkipOutcome(StartOutcome(exists, content, entryState, decision),
                     RemoveEntries(exists, content, in))
    ELSE IF decision.action = "preserve"
    THEN [StartOutcome(exists, content, entryState, decision) EXCEPT
             !.updated = "false", !.added = 0]
    ELSE UpdateAndCommit(exists, content, decision, entryState, in)

\* the run from the entry state on
DecisionOutcome(exists, content, in, entryState) ==
    ActionOutcome(exists, content, in, entryState,
                  resolveEntryAction(entryState,
                                     prDescCommand(in.body, commentTrigger, in.prNumber),
                                     commentCommandOf(in), in.preserveEdited))

\* the run from the detection of the entry state on
Resolved(exists, content, in) ==
    DecisionOutcome(exists, content, in,
                    detectEntryState(IF exists THEN content ELSE <<>>,
                                     in.prNumber).state)

\* the run from the skip check on: the skip before the decision is taken
\* when no comment command overrides it
SkipCheckOutcome(exists, content, in, commentCommand) ==
    IF /\ in.defaultBehavior \in {AUTO, OPT_IN}
       /\ shouldSkipChangelog(in.body, in.defaultBehavior, in.skipLabelMatch)
       /\ (commentCommand = NoCommand \/ commentCommand.command = "skip")
    THEN EarlySkip(exists, content, in)
    ELSE Resolved(exists, content, in)

\* one run of the action
run(exists, content, in) ==
    IF in.eventName \notin {"pull_request", "issue_comment"} THEN Outcome(exists, content)
    ELSE IF in.eventName = "issue_comment" /\ ~in.onPullRequest
    THEN Outcome(exists, content)
    ELSE IF in.dependabot THEN Outcome(exists, content)
    ELSE SkipCheckOutcome(exists, content, in, commentCommandOf(in))

----------------------------------------------------------------------------
(* One run on every changelog, PR and configuration of a small set *)

\* the PR of the runs
RunPr == Min(PRs)

\* the entry of the PR in the changelog, without its "- "
UntouchedEntry == buildMarkedEntry(EntryText(parseConventionalCommit(FeatTitle, RunPr)[1]), RunPr)

EditedEntry ==
    EditedLine(EntryText(parseConventionalCommit(FeatTitle, RunPr)[1]), RunPr,
               [op |-> "replace", at |-> 1, tok |-> W("new")])

ManualEntryText == EntryText(ManualEntry(<<W("manual"), SP, W("text")>>, RunPr))

\* the changelog file before the run
RunFiles ==
    {[exists |-> FALSE, content |-> <<>>],
     [exists |-> TRUE, content |-> Doc(TRUE, TRUE, TRUE, "head")],
     [exists |-> TRUE, content |-> DocWithEntry(UntouchedEntry)],
     [exists |-> TRUE, content |-> DocWithEntry(EditedEntry)],
     [exists |-> TRUE, content |-> DocWithEntry(ManualEntryText)]}

\* pr.body
RunBodies ==
    {<<>>,
     <<W("plain"), SP, W("text")>>,
     <<DASH, SP>> \o SKIP_CHECKBOX,
     <<DASH, SP>> \o CHECKED,
     <<DASH, SP>> \o UNCHECKED,
     commentTrigger \o <<SP, W("Improved"), SP, W("errors")>>}

\* the comments of the PR
RunComments ==
    {<<>>,
     <<[created_at |-> 1, body |-> <<W("just"), SP, W("comment")>>]>>,
     <<[created_at |-> 1, body |-> SKIP_COMMAND]>>,
     <<[created_at |-> 1, body |-> REGENERATE_COMMAND]>>,
     <<[created_at |-> 1, body |-> commentTrigger \o <<SP, W("from"), SP, W("comment")>>]>>}

\* the event of the run: a PR event, a PR event of dependabot with
\* skip-dependabot set, a comment on a PR, a comment on an issue, another event
Events ==
    {[eventName |-> "pull_request", onPullRequest |-> TRUE, dependabot |-> FALSE],
     [eventName |-> "pull_request", onPullRequest |-> TRUE, dependabot |-> TRUE],
     [eventName |-> "issue_comment", onPullRequest |-> TRUE, dependabot |-> FALSE],
     [eventName |-> "issue_comment", onPullRequest |-> FALSE, dependabot |-> FALSE],
     [eventName |-> "push", onPullRequest |-> FALSE, dependabot |-> FALSE]}

\* at most one of the collaborators fails in a run, or git status reports no
\* change of the changelog file (the path is ignored, say)
Failures ==
    {[fetchFails |-> f = "fetch", writeFails |-> f = "write",
      commitFails |-> f = "commit", statusEmpty |-> f = "clean"] :
        f \in {"none", "fetch", "write", "commit", "clean"}}

RunInput(event, failure, body, comments, defaultBehavior, preserveEdited, autoCategorize, skipLabelMatch) ==
    [eventName |-> event.eventName, onPullRequest |-> event.onPullRequest,
     prNumber |-> RunPr, title |-> <<W("feat"), COLON, SP, W("add"), SP, W("login")>>,
     body |-> body, comments |-> comments,
     fetchFails |-> failure.fetchFails, writeFails |-> failure.writeFails,
     commitFails |-> failure.commitFails, statusEmpty |-> failure.statusEmpty,
     defaultBehavior |-> defaultBehavior, preserveEdited |-> preserveEdited,
     autoCategorize |-> autoCategorize, skipLabelMatch |-> skipLabelMatch,
     dependabot |-> event.dependabot]

NoInput ==
    RunInput([eventName |-> "push", onPullRequest |-> FALSE, dependabot |-> FALSE],
             [fetchFails |-> FALSE, writeFails |-> FALSE, commitFails |-> FALSE,
              statusEmpty |-> FALSE],
             <<>>, <<>>, AUTO, TRUE, TRUE, FALSE)

InitRun ==
    /\ \E f \in RunFiles : fileExists = f.exists /\ fileContent = f.content
    /\ last = NoLast
    /\ hist = NoHist
    /\ probe = [kind |-> "run", done |-> FALSE, in |-> NoInput,
                out |-> Outcome(fileExists, fileContent)]

Run ==
    \E event \in Events, failure \in Failures, body \in RunBodies,
       comments \in RunComments, defaultBehavior \in {AUTO, OPT_IN},
       preserveEdited \in BOOLEAN, autoCategorize \in BOOLEAN,
       skipLabelMatch \in BOOLEAN :
        LET in == RunInput(event, failure, body, comments, defaultBehavior,
                           preserveEdited, autoCategorize, skipLabelMatch)
        IN  /\ probe.kind = "run"
            /\ ~probe.done
            /\ probe' = [kind |-> "run", done |-> TRUE, in |-> in,
                         out |-> run(fileExists, fileContent, in)]
            /\ fileExists' = probe'.out.exists
            /\ fileContent' = probe'.out.content
            /\ last' = [op |-> "run", pr |-> in.prNumber, entries |-> <<>>,
                        mark |-> FALSE, result |-> probe'.out.wrote,
                        beforeExists |-> fileExists, before |-> fileContent]
            /\ UNCHANGED hist

SpecRun == InitRun /\ [][Run]_vars

----------------------------------------------------------------------------
(* The life of one PR: comments, runs on PR updates, and a user's edit of the *)
(* generated entry                                                            *)

MaxHistory == 2     \* comments of the PR

\* bodies of the comments of the PR
HistoryBodies ==
    {<<W("just"), SP, W("comment")>>,
     SKIP_COMMAND,
     REGENERATE_COMMAND,
     commentTrigger \o <<SP, W("from"), SP, W("comment")>>}

\* the input of a run that a PR update triggers: auto mode, preserve-edited
\* true, nothing fails
PrUpdateInput(title, body, comments) ==
    [RunInput([eventName |-> "pull_request", onPullRequest |-> TRUE,
               dependabot |-> FALSE],
              [fetchFails |-> FALSE, writeFails |-> FALSE, commitFails |-> FALSE,
              statusEmpty |-> FALSE],
              body, comments, AUTO, TRUE, TRUE, FALSE)
     EXCEPT !.title = title]

\* the line of the PR in the changelog, and the line a user makes of it by
\* replacing its first word
LineOfPr(content, prNumber) ==
    LET lines == Split(content)
    IN  Min({i \in 1..Len(lines) : LineMatchesPr(lines[i], prNumber)})

UserEditedLine(line) ==
    LET text == DropEntryPrefix(Trim(line))
    IN  <<DASH, SP>>
        \o ApplyEdit(VisibleText(text), [op |-> "replace", at |-> 1, tok |-> W("edited")])
        \o <<SP, text[Len(text)]>>

InitPr ==
    /\ fileExists = FALSE
    /\ fileContent = <<>>
    /\ last = NoLast
    /\ hist = NoHist
    /\ probe \in {[kind |-> "pr", body |-> b, comments |-> <<>>, phase |-> "open",
                   editedLine |-> <<>>] :
                     b \in {<<>>, <<W("plain"), SP, W("text")>>}}

\* someone posts a comment on the PR, before the user edits the entry
PostComment ==
    \E b \in HistoryBodies :
        /\ probe.kind = "pr"
        /\ probe.phase = "open"
        /\ Len(probe.comments) < MaxHistory
        /\ probe' = [probe EXCEPT
                        !.comments = Append(probe.comments,
                                            [created_at |-> Len(probe.comments) + 1,
                                             body |-> b])]
        /\ UNCHANGED <<fileExists, fileContent, last, hist>>

\* the PR is updated and the action runs
PrUpdateRun ==
    \E title \in Titles :
        /\ probe.kind = "pr"
        /\ hist.steps < MaxSteps
        /\ LET ran(out) ==
                   /\ fileExists' = out.exists
                   /\ fileContent' = out.content
                   /\ Record(out.action, RunPr, <<>>, FALSE, out.wrote, FALSE)
           IN  ran(run(fileExists, fileContent,
                       PrUpdateInput(title, probe.body, probe.comments)))

\* the user edits the text of the generated, untouched entry of the PR
UserEdit ==
    /\ probe.kind = "pr"
    /\ probe.phase = "open"
    /\ fileExists
    /\ detectEntryState(fileContent, RunPr).state = AUTO_UNTOUCHED
    /\ LET editing(lines, i, edited) ==
               /\ fileContent' = Join([lines EXCEPT ![i] = edited])
               /\ probe' = [probe EXCEPT !.phase = "edited", !.editedLine = edited]
           at(lines, i) == editing(lines, i, UserEditedLine(lines[i]))
       IN  at(Split(fileContent), LineOfPr(fileContent, RunPr))
    /\ UNCHANGED <<fileExists, last, hist>>

NextPr == PostComment \/ PrUpdateRun \/ UserEdit

SpecPr == InitPr /\ [][NextPr]_vars

----------------------------------------------------------------------------
(* A skip of the PR's entry, then a '/changelog regenerate' comment *)

\* what asked for the earlier skip
SkipCauses == {"comment", "description", "checkbox", "label"}

SkipBody(cause) ==
    IF cause = "description" THEN SKIP_COMMAND
    ELSE IF cause = "checkbox" THEN <<DASH, SP>> \o SKIP_CHECKBOX
    ELSE <<>>

SkipComments(cause) ==
    IF cause = "comment" THEN <<[created_at |-> 1, body |-> SKIP_COMMAND]>> ELSE <<>>

\* the run that skips: a PR event in auto mode, nothing fails
SkipInput(cause, preserveEdited, autoCategorize) ==
    RunInput([eventName |-> "pull_request", onPullRequest |-> TRUE, dependabot |-> FALSE],
             [fetchFails |-> FALSE, writeFails |-> FALSE, commitFails |-> FALSE,
              statusEmpty |-> FALSE],
             SkipBody(cause), SkipComments(cause), AUTO, preserveEdited,
             autoCategorize, cause = "label")

\* the run after the regenerate comment: triggered by the comment or by a PR
\* update, the skip signal of the description or the label kept or taken away
RegenerateInput(in, eventName, title, kept) ==
    [in EXCEPT !.eventName = eventName,
               !.title = title,
               !.body = IF kept THEN in.body ELSE <<>>,
               !.skipLabelMatch = kept /\ in.skipLabelMatch,
               !.comments = Append(in.comments,
                                   [created_at |-> Len(in.comments) + 1,
                                    body |-> REGENERATE_COMMAND])]

\* the changelog holds an entry of the PR: untouched, edited or manual
InitSkipRegenerate ==
    /\ fileExists = TRUE
    /\ fileContent \in {DocWithEntry(UntouchedEntry), DocWithEntry(EditedEntry),
                        DocWithEntry(ManualEntryText)}
    /\ last = NoLast
    /\ hist = NoHist
    /\ probe = [kind |-> "skipregen", phase |-> "start", cause |-> "none",
                kept |-> FALSE, in |-> NoInput,
                out |-> Outcome(fileExists, fileContent)]

SkipRun ==
    \E cause \in SkipCauses, preserveEdited \in BOOLEAN, autoCategorize \in BOOLEAN :
        /\ probe.kind = "skipregen"
        /\ probe.phase = "start"
        /\ probe' = [kind |-> "skipregen", phase |-> "skipped", cause |-> cause,
                     kept |-> FALSE,
                     in |-> SkipInput(cause, preserveEdited, autoCategorize),
                     out |-> run(fileExists, fileContent,
                                 SkipInput(cause, preserveEdited, autoCategorize))]
        /\ fileExists' = probe'.out.exists
        /\ fileContent' = probe'.out.content
        /\ last' = [op |-> "run", pr |-> RunPr, entries |-> <<>>, mark |-> FALSE,
                    result |-> probe'.out.wrote,
                    beforeExists |-> fileExists, before |-> fileContent]
        /\ UNCHANGED hist

RegenerateRun ==
    \E eventName \in {"pull_request", "issue_comment"}, title \in Titles,
       kept \in BOOLEAN :
        /\ probe.kind = "skipregen"
        /\ probe.phase = "skipped"
        /\ probe' = [probe EXCEPT
                        !.phase = "regenerated",
                        !.kept = kept,
                        !.in = RegenerateInput(probe.in, eventName, title, kept),
                        !.out = run(fileExists, fileContent,
                                    RegenerateInput(probe.in, eventName, title, kept))]
        /\ fileExists' = probe'.out.exists
        /\ fileContent' = probe'.out.content
        /\ last' = [op |-> "run", pr |-> RunPr, entries |-> <<>>, mark |-> FALSE,
                    result |-> probe'.out.wrote,
                    beforeExists |-> fileExists, before |-> fileContent]
        /\ UNCHANGED hist

NextSkipRegenerate == SkipRun \/ RegenerateRun

SpecSkipRegenerate == InitSkipRegenerate /\ [][NextSkipRegenerate]_vars

----------------------------------------------------------------------------
(* detectEntryState applied to documents with lines inside and outside the
   Unreleased section *)

MaxSliceLines == 3    \* lines under the Unreleased heading

\* the lines of the documents: entries of the PR as the action writes them,
\* as a user edits them and as a user writes them, the entry of another PR,
\* and a line that names the PR without being a list item
ScopeLines ==
    {[kind |-> "untouched", line |-> <<DASH, SP>> \o UntouchedEntry],
     [kind |-> "edited", line |-> <<DASH, SP>> \o EditedEntry],
     [kind |-> "manual", line |-> <<SP, DASH, SP>> \o ManualEntryText],
     [kind |-> "other", line |-> MarkedLine(FeatTitle, OtherPr)],
     [kind |-> "prose", line |-> UntouchedEntry]}

ScopeSlices == UNION {[1..n -> ScopeLines] : n \in 0..MaxSliceLines}

\* the lines before the Unreleased heading
ScopeHeaders ==
    {<<>>, << <<H1>> >>}
    \cup {<< <<H1>>, l.line >> : l \in {m \in ScopeLines : m.kind \in {"untouched", "manual"}}}

\* the lines from the first released version on
ScopeReleases ==
    {<<>>, << <<REL("1.0.0")>> >>}
    \cup {<< <<REL("1.0.0")>>, l.line >> :
            l \in {m \in ScopeLines : m.kind \in {"untouched", "edited", "manual"}}}

ScopeDoc(header, heading, slice, release) ==
    Join(header
         \o (IF heading THEN << <<UNREL>> >> ELSE <<>>)
         \o [i \in 1..Len(slice) |-> slice[i].line]
         \o release)

InitScope ==
    /\ fileExists = FALSE
    /\ fileContent = <<>>
    /\ last = NoLast
    /\ hist = NoHist
    /\ probe \in {[kind |-> "scope", header |-> h, heading |-> u, slice |-> s,
                   release |-> r, done |-> FALSE, state |-> NONE] :
                     h \in ScopeHeaders, u \in BOOLEAN, s \in ScopeSlices,
                     r \in ScopeReleases}

ApplyScope ==
    /\ probe.kind = "scope"
    /\ ~probe.done
    /\ probe' = [probe EXCEPT
                    !.done = TRUE,
                    !.state = detectEntryState(
                                  ScopeDoc(probe.header, probe.heading,
                                           probe.slice, probe.release),
                                  RunPr).state]
    /\ UNCHANGED <<fileExists, fileContent, last, hist>>

SpecScope == InitScope /\ [][ApplyScope]_vars

----------------------------------------------------------------------------
(* updateChangelog called on a missing file and on documents without the
   Unreleased heading *)

\* the lines of one released version
ReleaseLines(v) ==
    << <<REL(v)>>, <<>>, <<H3("Features")>>,
       ManualLine(<<W("released"), SP, W(v)>>, OldPr), <<>> >>

\* documents without the heading: empty, with or without a header, with or
\* without released versions, with or without a newline at the end
HeadlessDocs ==
    {Join(header \o releases) \o (IF trail THEN <<NL>> ELSE <<>>) :
        header \in {<<>>, << <<H1>> >>,
                    << <<H1>>, <<>>, <<W("All notable changes.")>>, <<>> >>},
        releases \in {<<>>, ReleaseLines("1.0.0"),
                      ReleaseLines("1.1.0") \o ReleaseLines("1.0.0")},
        trail \in BOOLEAN}

InitCreate ==
    /\ \/ fileExists = FALSE /\ fileContent = <<>>
       \/ fileExists = TRUE /\ fileContent \in HeadlessDocs
    /\ last = NoLast
    /\ hist = NoHist
    /\ probe = NoProbe

SpecCreate == InitCreate /\ [][NextUpdate]_vars

----------------------------------------------------------------------------
(* What the claims speak of: lines, the header, the released versions *)

\* the line starts a level-2 section
IsLevel2Heading(line) == Len(line) >= 1 /\ line[1].k \in {"unrel", "rel"}

IsUnreleasedHeading(line) == Len(line) >= 1 /\ line[1] = UNREL

\* number of the line of the Unreleased heading, 0 when the document has none
HeadingLine(doc) ==
    LET lines == Split(doc)
        hit == {i \in 1..Len(lines) : IsUnreleasedHeading(lines[i])}
    IN  IF hit = {} THEN 0 ELSE Min(hit)

\* number of the line of the next level-2 heading, one past the end when none
ReleasedLine(doc) ==
    LET lines == Split(doc)
        hit == {i \in (HeadingLine(doc) + 1)..Len(lines) : IsLevel2Heading(lines[i])}
    IN  IF hit = {} THEN Len(lines) + 1 ELSE Min(hit)

\* the lines before the Unreleased heading
HeaderLines(doc) == SubSeq(Split(doc), 1, HeadingLine(doc) - 1)

\* the lines from the next level-2 heading to the end of the document
ReleasedLines(doc) == SubSeq(Split(doc), ReleasedLine(doc), Len(Split(doc)))

\* the lines of the Unreleased section, heading included
UnreleasedLines(doc) == SubSeq(Split(doc), HeadingLine(doc), ReleasedLine(doc) - 1)

\* the line links to the PR or carries a marker of the PR
RefersTo(line, prNumber) ==
    \E i \in 1..Len(line) : line[i].k \in {"lnk", "mk"} /\ line[i].p = prNumber

\* the line is a list item
IsEntryLine(line) == StartsWithEntryPrefix(Trim(line))

\* the entry lines of the Unreleased section that do not refer to the PR
UnrelatedEntries(doc, prNumber) ==
    SelectSeq(UnreleasedLines(doc),
              LAMBDA l : IsEntryLine(l) /\ ~RefersTo(l, prNumber))

UpdateOps == {"generate", "regenerate", "custom", "update"}

\* the last handler was an update that had an entry to write
Updated == last.op \in UpdateOps /\ last.entries # <<>>

\* the last handler started from an existing document with an Unreleased heading
HadUnreleased == last.beforeExists /\ HeadingLine(last.before) # 0

----------------------------------------------------------------------------
(* Claims *)

\* C1: applying updateChangelog with markEntries = true a second time, for the
\* same PR and the same parsed title, leaves the document byte-identical and
\* reports "no change" (returns false, writes nothing).
C1_SecondApplicationChangesNothing ==
    (last.op = "update" /\ last.mark /\ Len(last.entries) = 1) =>
        LET again == updateChangelog(fileExists, fileContent, last.entries, TRUE)
        IN  again.result = FALSE /\ again.content = fileContent

\* C2: after any sequence of generate, regenerate and custom actions for a
\* single PR number, the Unreleased section holds exactly one line that refers
\* to that PR (by link or by marker).
C2_ExactlyOneLinePerPr ==
    \A p \in PRs :
        (hist.updatesOnly /\ hist.prs = {p} /\ Updated) =>
            LET lines == UnreleasedLines(fileContent)
            IN  Cardinality({i \in 1..Len(lines) : RefersTo(lines[i], p)}) = 1

\* C4: updateChangelog with a non-empty entry list leaves the text before the
\* Unreleased heading and the text from the next level-2 heading to the end
\* of the document byte-identical.
C4_UpdateKeepsHeaderAndReleases ==
    (last.op = "update" /\ HadUnreleased) =>
        /\ HeadingLine(fileContent) # 0
        /\ HeaderLines(fileContent) = HeaderLines(last.before)
        /\ ReleasedLines(fileContent) = ReleasedLines(last.before)

\* an update with two entries rewrote the Unreleased section of a document
\* that has a header and a released version
C4_Witness ==
    /\ last.op = "update"
    /\ HadUnreleased
    /\ last.result
    /\ Len(last.entries) = 2
    /\ HeaderLines(last.before) # <<>>
    /\ ReleasedLines(last.before) # <<>>
    /\ UnreleasedLines(fileContent) # UnreleasedLines(last.before)

\* C5: whatever action a run executes (skip, preserve, generate, regenerate,
\* custom), the header and the released versions of the document stay as
\* they were: only the Unreleased section is ever mutated.
C5_OnlyUnreleasedMutated ==
    (last.op # "init" /\ HadUnreleased) =>
        /\ HeaderLines(fileContent) = HeaderLines(last.before)
        /\ ReleasedLines(fileContent) = ReleasedLines(last.before)

\* C6: generate, regenerate and custom for a PR leave every Unreleased entry
\* line that does not refer to the PR byte-identical and in the same order.
C6_UnrelatedEntriesKept ==
    (Updated /\ last.op # "update" /\ HadUnreleased) =>
        UnrelatedEntries(fileContent, last.pr) = UnrelatedEntries(last.before, last.pr)

\* C8: starting from a missing file, right after a generate or regenerate
\* action wrote the entry of a PR with a marker, detectEntryState for the PR
\* returns AUTO_UNTOUCHED with the stored hash of the rendered entry text.
C8_GeneratedEntryIsUntouched ==
    (last.op \in {"generate", "regenerate"} /\ last.result) =>
        LET found == detectEntryState(fileContent, last.pr)
        IN  /\ found.state = AUTO_UNTOUCHED
            /\ found.storedHash = computeEntryHash(EntryText(last.entries[1]))

\* the rule of the priority table that applies: the first whose condition holds
PriorityTable(st, d, c, pe) ==
    <<[when |-> c.command = "skip", action |-> "skip", marks |-> BOOLEAN, text |-> Null],
      [when |-> d.command = "skip", action |-> "skip", marks |-> BOOLEAN, text |-> Null],
      [when |-> c.command = "regenerate", action |-> "regenerate", marks |-> {TRUE},
       text |-> Null],
      [when |-> d.command = "custom", action |-> "custom", marks |-> {FALSE},
       text |-> d.text],
      [when |-> c.command = "custom", action |-> "custom", marks |-> {FALSE},
       text |-> c.text],
      [when |-> st \in {NONE, AUTO_UNTOUCHED}, action |-> "generate", marks |-> {TRUE},
       text |-> Null],
      [when |-> st \in {AUTO_EDITED, MANUAL} /\ pe, action |-> "preserve",
       marks |-> {FALSE}, text |-> Null],
      [when |-> st \in {AUTO_EDITED, MANUAL} /\ ~pe, action |-> "generate",
       marks |-> {TRUE}, text |-> Null],
      [when |-> TRUE, action |-> "generate", marks |-> {TRUE}, text |-> Null]>>

\* C3: resolveEntryAction equals the first-match priority table for every
\* entry state, description command, latest comment command and preserve flag.
C3_ResolveFollowsPriorityTable ==
    (probe.kind = "resolve" /\ probe.done) =>
        LET rows == PriorityTable(probe.entryState, probe.prDescCommand,
                                  probe.commentCommand, probe.preserveEdited)
            rule == rows[Min({i \in 1..Len(rows) : rows[i].when})]
        IN  /\ probe.decision.action = rule.action
            /\ probe.decision.mark \in rule.marks
            /\ rule.action = "custom" => probe.decision.text = rule.text

\* a regenerate comment met a custom text in the description and an edited entry
C3_Witness ==
    /\ probe.kind = "resolve"
    /\ probe.done
    /\ probe.entryState = AUTO_EDITED
    /\ probe.preserveEdited
    /\ probe.prDescCommand.command = "custom"
    /\ probe.commentCommand.command = "regenerate"
    /\ probe.decision.action = "regenerate"

\* the edit only adds spaces at the ends of the visible text, or carriage returns
WhitespaceEdit(v, e) ==
    e.op = "insert" /\ (e.tok = CR \/ (e.tok = SP /\ e.at \in {0, Len(v)}))

\* C7 as stated: a marked line placed as a list item is AUTO_UNTOUCHED when
\* nothing is changed, and AUTO_EDITED whenever only its visible text changed.
C7_EveryTextEditDetected ==
    (probe.kind = "detect" /\ probe.done) =>
        probe.state = IF probe.edit.op = "none" THEN AUTO_UNTOUCHED ELSE AUTO_EDITED

\* C7 as amended: the line is AUTO_UNTOUCHED when nothing is changed and when
\* the visible text changed only by spaces at its ends or by carriage returns,
\* and AUTO_EDITED for every other change of the visible text alone.
C7_TextEditDetectedUpToWhitespace ==
    (probe.kind = "detect" /\ probe.done) =>
        LET v == VisibleText(buildMarkedEntry(probe.text, probe.prNumber))
        IN  probe.state = IF probe.edit.op = "none" \/ WhitespaceEdit(v, probe.edit)
                          THEN AUTO_UNTOUCHED
                          ELSE AUTO_EDITED

\* a word of the visible text was replaced and the entry is seen as edited
C7_Witness ==
    /\ probe.kind = "detect"
    /\ probe.done
    /\ probe.edit.op = "replace"
    /\ probe.state = AUTO_EDITED

HasMarker(text) == FirstMarker(text) # 0

\* C9: for a text without a marker the hash does not change when a space and
\* a marker are appended; and the hash of a text does not change when every
\* LF is written as CRLF.
C9_HashStable ==
    (probe.kind = "codec" /\ probe.done) =>
        /\ ~HasMarker(probe.text) => probe.hash = probe.hashMarked
        /\ probe.hash = probe.hashCRLF

\* a text of two lines without a marker was hashed
C9_Witness ==
    /\ probe.kind = "codec"
    /\ probe.done
    /\ ~HasMarker(probe.text)
    /\ \E i \in 2..(Len(probe.text) - 1) :
          probe.text[i] = NL /\ probe.text[i - 1].k = "w" /\ probe.text[i + 1].k = "w"
    /\ probe.hash # Digest(<<>>)

\* the text without any of its markers
StripAllMarkers(text) == SelectSeq(text, LAMBDA t : t.k # "mk")

MarkerCount(text) == Cardinality({i \in 1..Len(text) : text[i].k = "mk"})

\* C10: buildMarkedEntry applied to its own output returns it unchanged, the
\* result carries exactly one marker, and the hash of that marker is
\* computeEntryHash of the text with its markers stripped.
C10_BuildMarkedEntryIdempotent ==
    (probe.kind = "codec" /\ probe.done) =>
        /\ probe.markedTwice = probe.marked
        /\ MarkerCount(probe.marked) = 1
        /\ probe.marked[Len(probe.marked)].h
               = computeEntryHash(StripAllMarkers(probe.text))

\* the comments of the list that hold a command-shaped line
WithCommand(comments) ==
    {i \in 1..Len(comments) : CommandOfBody(comments[i].body, commentTrigger) # NoCommand}

\* C11: parseCommentCommands returns the command of the first command-shaped
\* line of a comment of the greatest creation time among the comments that
\* hold a command-shaped line, whatever the input order, and null exactly
\* when no comment holds one.
C11_LatestCommentWins ==
    (probe.kind = "comments" /\ probe.done) =>
        LET with == WithCommand(probe.comments)
        IN  IF with = {} THEN probe.command = NoCommand
            ELSE \E i \in with :
                    /\ \A j \in with :
                           probe.comments[j].created_at <= probe.comments[i].created_at
                    /\ probe.command = CommandOfBody(probe.comments[i].body, commentTrigger)

\* an older comment with a command stands before the latest one, which has
\* another command, and a still later comment without a command follows
C11_Witness ==
    /\ probe.kind = "comments"
    /\ probe.done
    /\ Len(probe.comments) = 3
    /\ probe.comments[1].created_at < probe.comments[2].created_at
    /\ probe.comments[1].body = SKIP_COMMAND
    /\ probe.comments[2].body = REGENERATE_COMMAND_SLASH
    /\ probe.comments[3].body = <<W("just"), SP, W("comment")>>
    /\ probe.comments[3].created_at = probe.comments[2].created_at
    /\ probe.command = RegenerateCommand

\* C12: the command the run derives from a description (skip, custom with
\* its text, or none) is the one the comment scan returns for a single
\* comment with that body, a regenerate phrase counting as no command of a
\* description.
C12_DescriptionScannedLikeComment ==
    (probe.kind = "description" /\ probe.done) =>
        LET expected == IF probe.fromComment = RegenerateCommand THEN NoCommand
                        ELSE probe.fromComment
        IN  /\ probe.fromDescription.command = expected.command
            /\ expected.command = "custom" => probe.fromDescription.text = expected.text

\* the fixed closed set of types
FixedTypes ==
    {"feat", "feature", "fix", "docs", "style", "refactor", "perf", "test", "chore",
     "ci", "build", "revert"}

\* C13: a title  type(scope)!: description  whose type is of the fixed set, in
\* any letter case, parses to the entry with the section of the type table,
\* the scope inside the parentheses (null when absent) and the description
\* after the separator; a title with another first word or without the ':'
\* parses to null.
C13_ConventionalTitlesParse ==
    (probe.kind = "parse" /\ probe.done) =>
        IF ToLowerCase(probe.parts.type) \in FixedTypes /\ probe.parts.colon
        THEN probe.entry =
                <<[type |-> probe.parts.type,
                   scope |-> probe.parts.scope,
                   description |-> probe.parts.description,
                   prNumber |-> probe.prNumber,
                   section |-> COMMIT_TYPE_MAPPING(ToLowerCase(probe.parts.type))]>>
        ELSE probe.entry = <<>>

\* the file is as it was before the last handler
FileUnchanged == fileExists = last.beforeExists /\ fileContent = last.before

\* the run was for a pull request and did not stop at the dependabot check
RunForPr ==
    /\ probe.kind = "run"
    /\ probe.done
    /\ probe.in.eventName \in {"pull_request", "issue_comment"}
    /\ probe.in.onPullRequest
    /\ ~probe.in.dependabot

\* preserve-edited is true, neither the description nor a comment holds a
\* command or the skip checkbox, and the entry of the PR is edited or manual
EditProtected ==
    /\ RunForPr
    /\ probe.in.preserveEdited
    /\ prDescCommand(probe.in.body, commentTrigger, probe.in.prNumber) = NoCommand
    /\ ~Includes(probe.in.body, SKIP_CHECKBOX)
    /\ parseCommentCommands(probe.in.comments, commentTrigger) = NoCommand
    /\ detectEntryState(last.before, probe.in.prNumber).state \in {AUTO_EDITED, MANUAL}

\* the run resolved to preserve, wrote and committed nothing, left the file
\* as it was and reported changelog-updated=false, changes-added=0
Preserved ==
    /\ probe.out.action = "preserve"
    /\ ~probe.out.wrote
    /\ ~probe.out.committed
    /\ FileUnchanged
    /\ probe.out.updated = "false"
    /\ probe.out.added = 0

NotSkippedEarly ==
    \/ probe.in.defaultBehavior = AUTO /\ ~probe.in.skipLabelMatch
    \/ probe.in.defaultBehavior = OPT_IN /\ Includes(probe.in.body, CHECKED)

C15_UserEditSurvivesPrUpdates ==
    (probe.kind = "pr" /\ probe.phase = "edited") =>
        /\ fileExists
        /\ \E i \in 1..Len(UnreleasedLines(fileContent)) :
               UnreleasedLines(fileContent)[i] = probe.editedLine

\* C16: removeAutoGeneratedEntries for PR P deletes the lines that link to P
\* or carry P's marker and nothing else: the document after it is the
\* document before it without those lines, every other line and every
\* newline where it was; when no line matches (or there is no file) nothing
\* is written.
C16_RemovalIsExact ==
    last.op = "skip" =>
        LET lines == Split(last.before)
            kept == SelectSeq(lines, LAMBDA l : ~LineMatchesPr(l, last.pr))
        IN  IF last.beforeExists /\ Len(kept) # Len(lines)
            THEN fileExists /\ fileContent = Join(kept)
            ELSE /\ ~last.result
                 /\ fileExists = last.beforeExists
                 /\ fileContent = last.before

\* C17: a run in which writing the changelog file or committing it failed
\* ends in the failed state and sets none of the outputs (neither success
\* nor 'no change').
PersistFailed ==
    /\ probe.kind = "run"
    /\ probe.done
    /\ probe.out.logged

C17_PersistFailureIsFatal ==
    PersistFailed => (probe.out.failed /\ probe.out.updated = Unset)

\* C18: a run in which listing the PR comments fails does not fail for that
\* reason (it fails only when its commit fails), and its decision, its document and its outputs are those of the
\* same run on the same file with an empty comment list.
FetchFailed ==
    /\ probe.kind = "run"
    /\ probe.done
    /\ probe.in.fetchFails

C18_FetchFailureIsRunWithoutComments ==
    FetchFailed =>
        /\ probe.out = run(last.beforeExists, last.before,
                           [probe.in EXCEPT !.fetchFails = FALSE, !.comments = <<>>])
        /\ fileExists = probe.out.exists
        /\ fileContent = probe.out.content
        /\ probe.out.failed => commitThrows(probe.in)

\* the fetch fails on a PR whose latest comment asks to regenerate, the entry
\* is edited, and the run preserves it as a run without comments does
C18_Witness ==
    /\ FetchFailed
    /\ parseCommentCommands(probe.in.comments, commentTrigger) = RegenerateCommand
    /\ probe.in.preserveEdited
    /\ probe.out.entryState = AUTO_EDITED
    /\ probe.out.action = "preserve"

\* C19: on every run that sets the changelog-updated output, the output is
\* 'true' exactly when the changelog file after the run differs from the
\* file before it.
SetsUpdated ==
    /\ probe.kind = "run"
    /\ probe.done
    /\ probe.out.updated # Unset

C19_UpdatedIffFileChanged ==
    SetsUpdated => ((probe.out.updated = "true") <=> ~FileUnchanged)

\* C20: in opt-in mode a run for a PR whose description does not contain the
\* checked legacy checkbox neither adds nor rewrites an entry (it writes no
\* generated, regenerated or custom entry and does not report an updated
\* changelog), whatever the title, the labels and the comments are.
OptInWithoutCheckbox ==
    /\ RunForPr
    /\ probe.in.defaultBehavior = OPT_IN
    /\ ~Includes(probe.in.body, CHECKED)

C20_OptInWithoutCheckboxWritesNoEntry ==
    OptInWithoutCheckbox =>
        /\ ~(probe.out.wrote /\ probe.out.action \in {"generate", "regenerate", "custom"})
        /\ probe.out.updated # "true"

\* the run wrote a generated, regenerated or custom entry into the file
WroteEntry ==
    /\ probe.out.wrote
    /\ probe.out.action \in {"generate", "regenerate", "custom"}

\* auto mode, and the PR carries one of the configured skip labels
LabelSkip ==
    /\ RunForPr
    /\ probe.in.defaultBehavior = AUTO
    /\ probe.in.skipLabelMatch

C22_CommitOnlyAfterChangingWrite ==
    (probe.kind = "run" /\ probe.done) =>
        /\ probe.out.commitInvoked => (probe.out.wrote /\ ~FileUnchanged)
        /\ (probe.out.action = "preserve" \/ ~probe.out.wrote) => ~probe.out.commitInvoked
        /\ (probe.out.commitInvoked /\ probe.in.statusEmpty) =>
               (~probe.out.failed /\ ~probe.out.logged)

\* the entry of the PR was removed by the skip, and the run after the
\* regenerate comment is done
RegeneratedAfterSkip ==
    /\ probe.kind = "skipregen"
    /\ probe.phase = "regenerated"
    /\ detectEntryState(last.before, RunPr).state = NONE

\* the run resolved to regenerate and the Unreleased section holds the line
\* generated from the title, with the marker of its text
FreshLineFromTitle ==
    /\ probe.out.action = "regenerate"
    /\ probe.out.wrote
    /\ parseConventionalCommit(probe.in.title, RunPr) # <<>>
    /\ \E i \in 1..Len(UnreleasedLines(fileContent)) :
           UnreleasedLines(fileContent)[i] = MarkedLine(probe.in.title, RunPr)
    /\ detectEntryState(fileContent, RunPr).state = AUTO_UNTOUCHED

\* C23: after a skip removed the entry of the PR (asked for by a comment, a
\* description command, the skip checkbox or a label), the run that finds
\* '/changelog regenerate' as the latest command comment resolves to
\* regenerate and writes a fresh marked line generated from the title; read
\* here for the runs that can generate at all: the description holds no skip
\* command, auto-categorize is true and the title is a conventional commit.
C23_RegenerateAfterSkip ==
    (/\ RegeneratedAfterSkip
     /\ prDescCommand(probe.in.body, commentTrigger, RunPr) # SkipCommand
     /\ probe.in.autoCategorize
     /\ parseConventionalCommit(probe.in.title, RunPr) # <<>>)
        => FreshLineFromTitle

\* resolveEntryAction was applied to a description command (skip or custom)
\* and a different command of the latest comment
DescriptionAndCommentDiffer ==
    /\ probe.kind = "resolve"
    /\ probe.done
    /\ probe.prDescCommand.command \in {"skip", "custom"}
    /\ probe.commentCommand # NoCommand
    /\ probe.commentCommand # probe.prDescCommand

\* the decision is the one the description asks for
DescriptionDecides ==
    /\ probe.decision.action = probe.prDescCommand.command
    /\ probe.decision.action = "custom" =>
           probe.decision.text = probe.prDescCommand.text

\* C24 as stated: whenever the description carries a command (skip or
\* custom) and the latest comment carries a different command, the resolved
\* action is the one requested by the description.
C24_DescriptionOutranksComment ==
    DescriptionAndCommentDiffer => DescriptionDecides

\* C24: a skip command of the description always decides; a custom text of
\* the description outranks a custom text of the latest comment, and is
\* outranked by the comment's skip (action skip) and by the comment's
\* regenerate (action regenerate).
C24_DescriptionOutranksCommentCustom ==
    DescriptionAndCommentDiffer =>
        IF probe.prDescCommand.command = "skip" THEN DescriptionDecides
        ELSE IF probe.commentCommand.command = "custom" THEN DescriptionDecides
        ELSE /\ probe.decision.action = probe.commentCommand.command
             /\ probe.decision.mark = (probe.commentCommand.command = "regenerate")

\* a custom text in the description and another one in the latest comment:
\* the description's text is the one resolved
C24_Witness ==
    /\ DescriptionAndCommentDiffer
    /\ probe.prDescCommand.command = "custom"
    /\ probe.commentCommand.command = "custom"
    /\ probe.decision.action = "custom"
    /\ probe.decision.text = probe.prDescCommand.text

\* the list-item lines of the slice that link to the PR or carry its marker
ScopeMatches ==
    {i \in 1..Len(probe.slice) : probe.slice[i].kind \in {"untouched", "edited", "manual"}}

\* the state the first such line stands for
ScopeExpected ==
    IF ~probe.heading \/ ScopeMatches = {} THEN NONE
    ELSE CASE probe.slice[Min(ScopeMatches)].kind = "untouched" -> AUTO_UNTOUCHED
           [] probe.slice[Min(ScopeMatches)].kind = "edited" -> AUTO_EDITED
           [] probe.slice[Min(ScopeMatches)].kind = "manual" -> MANUAL

\* C25: detectEntryState(document, P) is decided by the first list-item line
\* of the Unreleased slice that links to P or carries P's marker (marker with
\* matching hash: AUTO_UNTOUCHED, marker with another hash: AUTO_EDITED, link
\* without marker: MANUAL); later matching lines and the lines outside the
\* slice do not count, and the result is NONE for the empty document, without
\* the heading and without such a line.
C25_DetectorScopeAndFirstMatch ==
    (probe.kind = "scope" /\ probe.done) => probe.state = ScopeExpected

\* entries of the PR before the heading and under a released version, a
\* manual entry first in the slice and a marked one after it: MANUAL
C25_Witness ==
    /\ probe.kind = "scope"
    /\ probe.done
    /\ probe.heading
    /\ Len(probe.header) = 2
    /\ Len(probe.release) = 2
    /\ Len(probe.slice) = 3
    /\ probe.slice[1].kind = "prose"
    /\ probe.slice[2].kind = "manual"
    /\ probe.slice[3].kind = "untouched"
    /\ probe.state = MANUAL

\* updateChangelog was called with entries on a missing file or on a document
\* without the Unreleased heading
CalledWithoutHeading ==
    /\ last.op = "update"
    /\ last.entries # <<>>
    /\ (~last.beforeExists \/ IndexOfUnreleased(last.before) = 0)

\* the text the call found: nothing when the file was missing
TextBefore == IF last.beforeExists THEN last.before ELSE <<>>

\* position of the first release heading of a text, 0 when it has none
FirstRelease(text) == IndexOfKind(text, "rel", 1)

\* the text before is kept around the new section: the first k tokens before
\* it and the others after it
KeptAround(k) ==
    /\ SubSeq(fileContent, 1, k) = SubSeq(TextBefore, 1, k)
    /\ SubSeq(fileContent, Len(fileContent) - (Len(TextBefore) - k) + 1, Len(fileContent))
           = SubSeq(TextBefore, k + 1, Len(TextBefore))
    /\ IndexOfUnreleased(fileContent) > k
    /\ IndexOfUnreleased(fileContent) <= Len(fileContent) - (Len(TextBefore) - k)

\* where the header of the text before ends: before its first release
\* heading (or the newline in front of it), at its end when it has none
HeaderEnds ==
    IF FirstRelease(TextBefore) = 0 THEN {Len(TextBefore)}
    ELSE {FirstRelease(TextBefore) - 1, FirstRelease(TextBefore) - 2} \cap Nat

\* C26: when the changelog file is absent, or present without the Unreleased
\* heading, updateChangelog succeeds and the document then holds exactly one
\* Unreleased heading, after the header and before every release heading
\* that was there, with the new entries inside it and all the text that was
\* there kept.
C26_MissingSectionIsCreated ==
    CalledWithoutHeading =>
        /\ last.result
        /\ fileExists
        /\ Cardinality({i \in 1..Len(fileContent) : fileContent[i] = UNREL}) = 1
        /\ \E k \in HeaderEnds : KeptAround(k)
        /\ \A i \in 1..Len(last.entries) :
               \E j \in 1..Len(UnreleasedLines(fileContent)) :
                   UnreleasedLines(fileContent)[j] = EntryLine(last.entries[i], last.mark)

\* the statement of C26 holds for the missing file and for the documents
\* that do not begin with a release heading
C26_WithHeader ==
    (CalledWithoutHeading /\ FirstRelease(TextBefore) # 1) => C26_MissingSectionIsCreated

\* the name of the sub-section line i of the lines stands in, "" above the
\* first sub-heading
SubsectionOf(lines, i) ==
    LET heads == {j \in 1..i : Len(lines[j]) >= 1 /\ lines[j][1].k = "h3"}
    IN  IF heads = {} THEN "" ELSE lines[Max(heads)][1].s

\* the last handler wrote one entry for a PR whose entry stood under another
\* sub-section of Unreleased
Relocated ==
    /\ Updated
    /\ HadUnreleased
    /\ Len(last.entries) = 1
    /\ \E i \in 1..Len(UnreleasedLines(last.before)) :
           /\ IsEntryLine(UnreleasedLines(last.before)[i])
           /\ RefersTo(UnreleasedLines(last.before)[i], last.entries[1].prNumber)
           /\ SubsectionOf(UnreleasedLines(last.before), i) # last.entries[1].section

\* C27: when a PR has an entry under one sub-section of Unreleased and a
\* generate, regenerate or custom action writes an entry for it that maps to
\* another section, the old line is removed and the new line stands under
\* the sub-heading of the new section, so that the PR's entry appears only
\* there.
C27_SupersededEntryIsRelocated ==
    Relocated =>
        LET lines == UnreleasedLines(fileContent)
            mine == {i \in 1..Len(lines) : RefersTo(lines[i], last.entries[1].prNumber)}
        IN  /\ mine # {}
            /\ \A i \in mine :
                   /\ lines[i] = EntryLine(last.entries[1], last.mark)
                   /\ SubsectionOf(lines, i) = last.entries[1].section

\* the lines a call of updateChangelog renders for its entries
RenderedLines == {EntryLine(last.entries[k], last.mark) : k \in 1..Len(last.entries)}

\* line i of the lines is the rendered line of the entry, under the
\* sub-heading of its section, and only blank lines and lines of the same
\* call follow it before the next sub-heading
OwnLineAt(lines, i, entry) ==
    /\ lines[i] = EntryLine(entry, last.mark)
    /\ StartsWithEntryPrefix(lines[i])
    /\ SubsectionOf(lines, i) = entry.section
    /\ \A j \in (i + 1)..Len(lines) :
           SubsectionOf(lines, j) = entry.section
               => \/ Trim(lines[j]) = <<>>
                  \/ lines[j][1].k = "h3"
                  \/ lines[j] \in RenderedLines

\* C28: after a call of updateChangelog that wrote, on any document, every
\* rendered entry is a line of its own: '- ', the text with its link and,
\* when marked, the marker; it stands after the lines its sub-section had
\* and before the next sub-heading, and is not glued to an entry line or a
\* heading line.
C28_EntryIsALineOfItsOwn ==
    (last.op = "update" /\ last.result) =>
        \A k \in 1..Len(last.entries) :
            \E i \in 1..Len(UnreleasedLines(fileContent)) :
                OwnLineAt(UnreleasedLines(fileContent), i, last.entries[k])

\* the last run generated for a PR whose entry was AUTO_UNTOUCHED and already
\* was the line of the title: title and commands unchanged since its last run
RerunUnchanged ==
    /\ last.op = "generate"
    /\ Len(last.entries) = 1
    /\ last.beforeExists
    /\ detectEntryState(last.before, last.pr).state = AUTO_UNTOUCHED
    /\ detectEntryState(last.before, last.pr).line = EntryLine(last.entries[1], TRUE)

\* C29: when runs for several PRs are interleaved on one changelog, a run
\* for a PR whose title and commands are unchanged since its last run and
\* whose entry is AUTO_UNTOUCHED reports 'no change' and writes nothing,
\* whatever entries of other PRs were added to the same sub-section in
\* between.
C29_RerunIsSilent ==
    RerunUnchanged => (~last.result /\ fileContent = last.before)

\* the rendered line of the entry ends with a marker of its PR
EndsWithMarker(line, prNumber) ==
    line[Len(line)].k = "mk" /\ line[Len(line)].p = prNumber

\* C30: updateChangelog appends the marker to a rendered entry if and only
\* if markEntries is true; so after a custom action for a PR (mark false)
\* detectEntryState answers MANUAL for it, and once the custom command is
\* gone a run with preserve-edited true resolves to preserve and leaves the
\* file as it is.
C30_MarkingFollowsDecision ==
    /\ Updated =>
           \A k \in 1..Len(last.entries) :
               EndsWithMarker(EntryLine(last.entries[k], last.mark),
                              last.entries[k].prNumber) <=> last.mark
    /\ (last.op = "custom" /\ last.entries # <<>>) =>
           /\ ~last.mark
           /\ detectEntryState(fileContent, last.pr).state = MANUAL
    /\ (fileExists /\ \E p \in PRs : detectEntryState(fileContent, p).state = MANUAL) =>
           resolveEntryAction(MANUAL, NoCommand, NoCommand, TRUE).action = "preserve"
    /\ last.op = "preserve" => fileContent = last.before

====
